---- MODULE Spec2Model ----
(***************************************************************************)
(* Model of the PropelAuth CLI's source-file mutation engine               *)
(* (modifyAppRouterLayout, modifyPagesRouterApp) and of its file           *)
(* reconciliation gate (overwriteFileWithConfirmation).                    *)
(*                                                                         *)
(* A source text is a record [imports, fn, jsx]:                           *)
(*   imports  the import declarations of the file, in order;               *)
(*   fn       what sourceFile.getFunctions() offers the app-file mutator;  *)
(*   jsx      the JSX of the file as a sequence of tokens: opening tags,   *)
(*            closing tags, self-closing tags and {expression} children.   *)
(* The syntax tree ts-morph builds is computed from the tokens (Parse), a  *)
(* manipulation splices tokens into the text, and the next query parses    *)
(* the new text again, as ts-morph does. Attribute values are opaque: no   *)
(* tag, no '>' and no children identifier inside them.                     *)
(*                                                                         *)
(* A text with an unclosed tag still parses (the TypeScript parser         *)
(* recovers) and goes through the mutator like any other text. When the    *)
(* library throws inside the try block of a mutator, the catch block       *)
(* returns the text as it was given; on which texts the library throws is  *)
(* not decided by this repository. Spec holds the behaviours in which it   *)
(* does not throw, CatchSpec those in which it does (rejects).             *)
(*                                                                         *)
(* The other subsystems each have their variables and their specification: *)
(*   UrlSpec     testEnvToUrl and urlToTestEnv, applied in turn;           *)
(*   RemoteSpec  configureNextJsRedirectPaths, run after run;              *)
(*   SetupSpec   the two setup commands, one action for each awaited call; *)
(*   EnvSpec     updateEnvFile, run after run;                             *)
(*   RouteSpec   the route file generated from the template;               *)
(*   PortSpec    getPort, over dev scripts and answers to its prompt;      *)
(*   ParseSpec   parseEnvVars, over env file contents;                     *)
(*   DeepSpec    modifyAppRouterLayout on nested {children} expressions;   *)
(*   EnvironmentSpec  configureNextJsEnvironmentVariables as the app       *)
(*               router and the pages router setups call it.               *)
(* Their strings (URLs, env files, version numbers) are sequences of       *)
(* lexemes, parsed by what the JavaScript functions do with the text.      *)
(***************************************************************************)
EXTENDS Integers, Sequences, FiniteSets, TLC

\* Bounds of the model.
MaxNodes == 3
MaxRuns == 2
NumContents == 3
MaxCalls == 3
MaxChain == 3
MaxLines == 2
MaxInner == 4

-----------------------------------------------------------------------------
\* Tokens of JSX text.

Open(n) == [t |-> "open", n |-> n]
Close(n) == [t |-> "close", n |-> n]
Self(n) == [t |-> "self", n |-> n]
Expr(n) == [t |-> "expr", n |-> n]

\* Element names and expression texts a layout file is drawn from.
LayoutElements == {"body", "div", "AuthProvider"}
LayoutLeaves == {Self("img"), Expr("children"), Expr("props.children")}

\* Element names and leaves an app file's return statement is drawn from.
PagesElements == {"div", "ThemeProvider", "AuthProvider", "Component"}
PagesLeaves == {Self("Component")}

\* import { AuthProvider } from '@propelauth/nextjs/client', and any other import.
ProviderImport == "AuthProvider@propelauth/nextjs/client"
OtherImport == "other"
ImportLists == {<<>>, <<ProviderImport>>, <<OtherImport, ProviderImport>>}

\* The wrapper the mutators insert:
\* <AuthProvider authUrl={process.env.NEXT_PUBLIC_AUTH_URL!}> ... </AuthProvider>
ProviderOpen == Open("AuthProvider")
ProviderClose == Close("AuthProvider")

-----------------------------------------------------------------------------
\* Well-formed JSX: forests of at most MaxNodes nodes, as token sequences.

TreesOver(elems, leaves, inner, k) ==
    (IF k = 1 THEN {<<l>> : l \in leaves} ELSE {})
      \cup {<<Open(e)>> \o f \o <<Close(e)>> : e \in elems, f \in inner}

LayoutForests[n \in 0..MaxNodes] ==
    IF n = 0 THEN {<<>>}
    ELSE UNION {{tr \o rest : tr \in TreesOver(LayoutElements, LayoutLeaves, LayoutForests[k - 1], k),
                              rest \in LayoutForests[n - k]} : k \in 1..n}

PagesForests[n \in 0..MaxNodes] ==
    IF n = 0 THEN {<<>>}
    ELSE UNION {{tr \o rest : tr \in TreesOver(PagesElements, PagesLeaves, PagesForests[k - 1], k),
                              rest \in PagesForests[n - k]} : k \in 1..n}

LayoutJsx == UNION {LayoutForests[n] : n \in 0..MaxNodes}
PagesJsx == UNION {PagesForests[n] : n \in 0..MaxNodes}

-----------------------------------------------------------------------------
\* The syntax tree of a JSX text. parent[i] is the opening tag of the element
\* that holds token i (0 at the top), close[i] the closing tag of the element
\* opened at i (0 when the element is left unclosed). A closing tag closes the
\* innermost open element of its name; the open elements inside it are left
\* unclosed and end there.

LastOpenNamed(s, stack, n) ==
    LET hits == {p \in 1..Len(stack) : s[stack[p]].n = n}
    IN IF hits = {} THEN 0 ELSE CHOOSE p \in hits : \A q \in hits : q <= p

RECURSIVE ParseFrom(_, _, _, _, _)
ParseFrom(s, i, stack, par, cls) ==
    IF i > Len(s) THEN [parent |-> par, close |-> cls]
    ELSE LET top == IF stack = <<>> THEN 0 ELSE stack[Len(stack)]
             k == LastOpenNamed(s, stack, s[i].n)
         IN CASE s[i].t = "open" ->
                   ParseFrom(s, i + 1, Append(stack, i), Append(par, top), Append(cls, 0))
              [] s[i].t = "close" /\ k # 0 ->
                   ParseFrom(s, i + 1, SubSeq(stack, 1, k - 1), Append(par, stack[k]),
                             Append([cls EXCEPT ![stack[k]] = i], 0))
              [] OTHER ->
                   ParseFrom(s, i + 1, stack, Append(par, top), Append(cls, 0))

Parse(s) == ParseFrom(s, 1, <<>>, <<>>, <<>>)

RECURSIVE IsInside(_, _, _)
IsInside(P, j, i) ==
    /\ P.parent[j] # 0
    /\ (P.parent[j] = i \/ IsInside(P, P.parent[j], i))

RECURSIVE Depth(_, _)
Depth(P, j) == IF P.parent[j] = 0 THEN 0 ELSE 1 + Depth(P, P.parent[j])

\* The last token of the node that starts at token i.
NodeEnd(s, P, i) ==
    IF s[i].t # "open" THEN i
    ELSE IF P.close[i] # 0 THEN P.close[i]
    ELSE CHOOSE j \in i..Len(s) :
           /\ (j = i \/ IsInside(P, j, i))
           /\ \A m \in (j + 1)..Len(s) : ~IsInside(P, m, i)

NodeText(s, P, i) == SubSeq(s, i, NodeEnd(s, P, i))

\* A text with a tag left unclosed.
IsMalformed(s) ==
    LET P == Parse(s) IN \E i \in 1..Len(s) : s[i].t = "open" /\ P.close[i] = 0

\* bodyText.match(/<[^>]+>/g): one match per tag of the text.
TagMatches(txt) == Cardinality({i \in 1..Len(txt) : txt[i].t \in {"open", "close", "self"}})

\* text.includes('Provider')
IncludesProvider(txt) ==
    \E i \in 1..Len(txt) : txt[i].n \in {"AuthProvider", "ThemeProvider"}

\* getFirstDescendantByKind(SyntaxKind.Identifier) of a JSX expression
FirstIdentifier(n) ==
    CASE n = "children" -> "children"
      [] n = "props.children" -> "props"
      [] OTHER -> n

\* childText.includes('children')
IncludesChildren(n) == n \in {"children", "props.children"}

-----------------------------------------------------------------------------
\* Manipulations of the source file.

\* (mutant) the module specifier compared with the package root
hasAuthProviderImport_WrongModule(d) ==
    \E i \in 1..Len(d.imports) : d.imports[i] = "AuthProvider@propelauth/nextjs"

\* (mutant) only the first import declaration looked at
hasAuthProviderImport_FirstOnly(d) ==
    Len(d.imports) > 0 /\ d.imports[1] = ProviderImport

hasAuthProviderImport(d) == \E i \in 1..Len(d.imports) : d.imports[i] = ProviderImport

addImportDeclaration(d) == [d EXCEPT !.imports = Append(d.imports, ProviderImport)]

\* node.replaceWithText(txt) of the node that starts at token i
replaceWithText(d, i, txt) ==
    LET s == d.jsx
        e == NodeEnd(s, Parse(s), i)
    IN [d EXCEPT !.jsx = SubSeq(s, 1, i - 1) \o txt \o SubSeq(s, e + 1, Len(s))]

\* The first of the candidates at the greatest level (level > deepestLevel
\* replaces the candidate only on a strictly deeper one).
Innermost(cands, level) ==
    IF cands = {} THEN 0
    ELSE CHOOSE c \in cands : \A o \in cands :
           level[o] < level[c] \/ (level[o] = level[c] /\ c <= o)

-----------------------------------------------------------------------------
\* modifyAppRouterLayout

\* (mutant) the traversal stops at the first opening tag named body
bodyElement_First(s) ==
    LET hits == {i \in 1..Len(s) : s[i] = Open("body")}
    IN IF hits = {} THEN 0 ELSE CHOOSE i \in hits : \A j \in hits : i <= j

\* The body element: every opening tag named body overwrites the variable, so
\* the one kept is the last in document order (0: none).
bodyElement(s) ==
    LET hits == {i \in 1..Len(s) : s[i] = Open("body")}
    IN IF hits = {} THEN 0 ELSE CHOOSE i \in hits : \A j \in hits : j <= i

\* (mutant) forEachChild in place of forEachDescendant
HasProviderInside_ChildrenOnly(s, P, b) ==
    \E j \in 1..Len(s) : P.parent[j] = b /\ s[j] = ProviderOpen

\* An opening tag named AuthProvider among the descendants of the node at b.
HasProviderInside(s, P, b) == \E j \in 1..Len(s) : IsInside(P, j, b) /\ s[j] = ProviderOpen

hasComplexStructure(txt) == TagMatches(txt) > 2

\* The JSX expression to replace in a layout (0: none).
\* (mutant) level >= deepestLevel: the last candidate at the greatest level
findInnermostChildren_LastAtLevel(s, P, b) ==
    LET cands == {j \in 1..Len(s) : /\ IsInside(P, j, b)
                                    /\ s[j].t = "expr"
                                    /\ FirstIdentifier(s[j].n) = "children"}
        level == [j \in cands |-> Depth(P, j) - Depth(P, b) - 1]
    IN IF cands = {} THEN 0
       ELSE CHOOSE c \in cands : \A o \in cands :
              level[o] < level[c] \/ (level[o] = level[c] /\ o <= c)

findInnermostChildren(s, P, b) ==
    LET cands == {j \in 1..Len(s) : /\ IsInside(P, j, b)
                                    /\ s[j].t = "expr"
                                    /\ FirstIdentifier(s[j].n) = "children"}
        level == [j \in cands |-> Depth(P, j) - Depth(P, b) - 1]
    IN Innermost(cands, level)

firstChildrenExpression(s, P, b) ==
    LET cands == {j \in 1..Len(s) : /\ P.parent[j] = b
                                    /\ s[j].t = "expr"
                                    /\ IncludesChildren(s[j].n)}
    IN IF cands = {} THEN 0 ELSE CHOOSE j \in cands : \A o \in cands : j <= o

LayoutTarget(s) ==
    LET P == Parse(s)
        b == bodyElement(s)
    IN IF b = 0 \/ HasProviderInside(s, P, b) THEN 0
       ELSE IF hasComplexStructure(NodeText(s, P, b)) THEN findInnermostChildren(s, P, b)
       ELSE firstChildrenExpression(s, P, b)

LayoutWrapper(target) == <<ProviderOpen, Expr("children"), ProviderClose>>

\* (mutant) the import left out of the returned flag
reportedHasAuthProvider_NoImport(hasAuthProvider, hasImport, hostFound) ==
    hasAuthProvider \/ hostFound

\* hasAuthProvider of the returned object
reportedHasAuthProvider(hasAuthProvider, hasImport, hostFound) ==
    hasAuthProvider \/ (hasImport /\ hostFound)

\* What the catch block returns.
OriginalContent(d) == [modified |-> FALSE, updatedContent |-> d, hasAuthProvider |-> FALSE]

\* rejects: the library throws inside the try block.
modifyAppRouterLayout(d, rejects) ==
    LET s == d.jsx
        hasImport == hasAuthProviderImport(d)
        d1 == IF hasImport THEN d ELSE addImportDeclaration(d)
        b == bodyElement(s)
        hasAuthProvider == b # 0 /\ HasProviderInside(s, Parse(s), b)
        target == LayoutTarget(s)
        d2 == IF target # 0 THEN replaceWithText(d1, target, LayoutWrapper(s[target])) ELSE d1
    IN IF rejects THEN OriginalContent(d)
       ELSE [modified |-> target # 0,
             updatedContent |-> d2,
             hasAuthProvider |-> reportedHasAuthProvider(hasAuthProvider, hasImport, b # 0)]

-----------------------------------------------------------------------------
\* modifyPagesRouterApp. d.fn is "none" when no function declaration passes the
\* filter, "noreturn" when the first that passes holds no return statement and
\* "app" when it does; d.jsx is then the text of that return statement.

IsComponent(tok) == tok \in {Self("Component"), Open("Component")}

pagesHasComplexStructure(txt) == IncludesProvider(txt) \/ TagMatches(txt) > 2

findInnermostComponent(s, P) ==
    LET cands == {j \in 1..Len(s) : IsComponent(s[j])}
        level == [j \in cands |-> Depth(P, j) + (IF s[j].t = "open" THEN 1 ELSE 0)]
    IN Innermost(cands, level)

\* forEachDescendant overwrites componentElement on every match: the last one stays.
componentElement(s) ==
    LET cands == {j \in 1..Len(s) : IsComponent(s[j])}
    IN IF cands = {} THEN 0 ELSE CHOOSE j \in cands : \A o \in cands : o <= j

ReturnHasProvider(s) == \E j \in 1..Len(s) : s[j] = ProviderOpen

PagesTarget(d) ==
    LET s == d.jsx
    IN IF d.fn # "app" \/ ReturnHasProvider(s) THEN 0
       ELSE IF pagesHasComplexStructure(s) THEN findInnermostComponent(s, Parse(s))
       ELSE componentElement(s)

\* (mutant) the wrapped text written out in the template, as the layout's is
PagesWrapper_Fixed(txt) == <<ProviderOpen, Self("Component"), ProviderClose>>

PagesWrapper(txt) == <<ProviderOpen>> \o txt \o <<ProviderClose>>

modifyPagesRouterApp(d, rejects) ==
    LET s == d.jsx
        hasImport == hasAuthProviderImport(d)
        d1 == IF hasImport THEN d ELSE addImportDeclaration(d)
        hasAuthProvider == d.fn = "app" /\ ReturnHasProvider(s)
        target == PagesTarget(d)
        d2 == IF target # 0
              THEN replaceWithText(d1, target, PagesWrapper(NodeText(s, Parse(s), target)))
              ELSE d1
    IN IF rejects THEN OriginalContent(d)
       ELSE [modified |-> target # 0,
             updatedContent |-> d2,
             hasAuthProvider |->
                 reportedHasAuthProvider(hasAuthProvider, hasImport, d.fn # "none")]

-----------------------------------------------------------------------------
\* Inputs: well-formed texts, and the same texts with one closing tag dropped.

DropToken(s, i) == SubSeq(s, 1, i - 1) \o SubSeq(s, i + 1, Len(s))

Unclosed(texts) ==
    UNION {{DropToken(s, i) : i \in {k \in 1..Len(s) : s[k].t = "close"}} : s \in texts}

-----------------------------------------------------------------------------
\* The state: the mutator under study, the text it is first given, whether the
\* library throws inside the try block of the mutator, and the results of the
\* successive runs, each on the text the run before it returned.

VARIABLES mode, input, rejects, runs

\* The file reconciliation gate: the content of the target file on disk, the
\* call of overwriteFileWithConfirmation in progress or last finished, the
\* number of calls made, and the exit code of the process once it has exited.
VARIABLES disk, call, calls, exitCode

\* The TestEnv conversions: a value and the values obtained from it by applying
\* testEnvToUrl and urlToTestEnv in turn.
VARIABLES chain

\* The remote reconciler: the test-environment settings of the frontend
\* integration on the dashboard, the PortOrUrl getPort returned, and the
\* successive runs of configureNextJsRedirectPaths.
VARIABLES remote, portOrUrl, reconciles

\* A run of a setup command, setupNextJsAppRouter ("app") or
\* setupNextJsPagesRouter ("pages"): the command, the call it is about to make,
\* the exit code of the process once it has exited, the prompts answered and
\* the changes made so far, and the files the run reads and writes: the stored
\* configuration of the CLI, package.json, the two router directories, the
\* directory the middleware file is written to, and the route, middleware,
\* layout and _app files of the project.
VARIABLES command, step, setupExit, effects, files

\* updateEnvFile: the env file, the required variables, and the successive runs.
VARIABLES envFile, requiredVars, envRuns

\* The route file: the version of next in package.json and the content generated.
VARIABLES nextVersion, routeContent

mutatorVars == <<mode, input, rejects, runs>>
gateVars == <<disk, call, calls, exitCode>>
remoteVars == <<remote, portOrUrl, reconciles>>
setupVars == <<command, step, setupExit, effects, files>>
envVars == <<envFile, requiredVars, envRuns>>
routeVars == <<nextVersion, routeContent>>
vars == <<mode, input, rejects, runs, disk, call, calls, exitCode, chain,
          remote, portOrUrl, reconciles, command, step, setupExit, effects, files,
          envFile, requiredVars, envRuns, nextVersion, routeContent>>

\* A step of the subsystems S leaves the variables of every other subsystem as
\* they are.
Frame(S) ==
    /\ IF "mutator" \in S THEN TRUE ELSE UNCHANGED mutatorVars
    /\ IF "gate" \in S THEN TRUE ELSE UNCHANGED gateVars
    /\ IF "url" \in S THEN TRUE ELSE UNCHANGED chain
    /\ IF "remote" \in S THEN TRUE ELSE UNCHANGED remoteVars
    /\ IF "setup" \in S THEN TRUE ELSE UNCHANGED setupVars
    /\ IF "env" \in S THEN TRUE ELSE UNCHANGED envVars
    /\ IF "route" \in S THEN TRUE ELSE UNCHANGED routeVars

Absent == 0
Running == <<>>
Contents == 1..NumContents

NoCall ==
    [pc |-> "idle", newContent |-> Absent, spinner |-> "none", before |-> Absent,
     answer |-> "none", prompted |-> FALSE, diffShown |-> FALSE, wrote |-> FALSE]

\* A behaviour of the subsystems S starts with every other subsystem at rest.
Unset == [unset |-> TRUE]
IdleExcept(S) ==
    /\ IF "mutator" \in S THEN TRUE
       ELSE /\ mode = "layout" /\ input = [imports |-> <<>>, fn |-> "app", jsx |-> <<>>]
            /\ rejects = FALSE /\ runs = <<>>
    /\ IF "gate" \in S THEN TRUE
       ELSE disk = Absent /\ call = NoCall /\ calls = 0 /\ exitCode = Running
    /\ IF "url" \in S THEN TRUE ELSE chain = <<>>
    /\ IF "remote" \in S THEN TRUE
       ELSE remote = Unset /\ portOrUrl = Unset /\ reconciles = <<>>
    /\ IF "setup" \in S THEN TRUE
       ELSE /\ command = "none" /\ step = "idle" /\ setupExit = <<>>
            /\ effects = <<>> /\ files = Unset
    /\ IF "env" \in S THEN TRUE
       ELSE envFile = Unset /\ requiredVars = <<>> /\ envRuns = <<>>
    /\ IF "route" \in S THEN TRUE ELSE nextVersion = <<>> /\ routeContent = <<>>

Current == IF runs = <<>> THEN input ELSE runs[Len(runs)].updatedContent

WellFormedInit ==
    /\ mode \in {"layout", "pages"}
    /\ input \in (IF mode = "layout"
                  THEN [imports : ImportLists, fn : {"app"}, jsx : LayoutJsx]
                  ELSE [imports : ImportLists, fn : {"app"}, jsx : PagesJsx]
                         \cup [imports : ImportLists, fn : {"none", "noreturn"}, jsx : {<<>>}])

MalformedInit ==
    /\ mode \in {"layout", "pages"}
    /\ input \in [imports : ImportLists, fn : {"app"},
                  jsx : Unclosed(IF mode = "layout" THEN LayoutJsx ELSE PagesJsx)]
    /\ IsMalformed(input.jsx)

Init ==
    /\ WellFormedInit \/ MalformedInit
    /\ rejects = FALSE
    /\ runs = <<>>
    /\ disk = Absent /\ call = NoCall /\ calls = 0 /\ exitCode = Running
    /\ IdleExcept({"mutator", "gate"})

ModifyAppRouterLayout ==
    /\ mode = "layout"
    /\ Len(runs) < MaxRuns
    /\ runs' = Append(runs, modifyAppRouterLayout(Current, rejects))
    /\ UNCHANGED <<mode, input, rejects>>
    /\ Frame({"mutator"})

ModifyPagesRouterApp ==
    /\ mode = "pages"
    /\ Len(runs) < MaxRuns
    /\ runs' = Append(runs, modifyPagesRouterApp(Current, rejects))
    /\ UNCHANGED <<mode, input, rejects>>
    /\ Frame({"mutator"})

Next == ModifyAppRouterLayout \/ ModifyPagesRouterApp

Spec == Init /\ [][Next]_vars

\* The same runs with the library throwing: every run ends in the catch block.
CatchInit ==
    /\ WellFormedInit \/ MalformedInit
    /\ rejects = TRUE
    /\ runs = <<>>
    /\ disk = Absent /\ call = NoCall /\ calls = 0 /\ exitCode = Running
    /\ IdleExcept({"mutator", "gate"})

CatchSpec == CatchInit /\ [][Next]_vars

\* Layouts whose body holds up to MaxInner nodes: nested elements and
\* {children} expressions at several depths.
InnerForests[n \in 0..MaxInner] ==
    IF n = 0 THEN {<<>>}
    ELSE UNION {{tr \o rest : tr \in TreesOver({"div"}, {Expr("children"), Self("img")},
                                                InnerForests[k - 1], k),
                              rest \in InnerForests[n - k]} : k \in 1..n}

DeepInit ==
    /\ mode = "layout"
    /\ input \in [imports : {<<>>}, fn : {"app"},
                  jsx : {<<Open("body")>> \o f \o <<Close("body")>> :
                           f \in UNION {InnerForests[n] : n \in 0..MaxInner}}]
    /\ rejects = FALSE
    /\ runs = <<>>
    /\ disk = Absent /\ call = NoCall /\ calls = 0 /\ exitCode = Running
    /\ IdleExcept({"mutator", "gate"})

DeepSpec == DeepInit /\ [][ModifyAppRouterLayout]_vars

-----------------------------------------------------------------------------
\* overwriteFileWithConfirmation. The spinner argument is absent ("none"), a
\* spinner ("spinner"), or the boolean true that updateAppRouterLayout and
\* updatePagesRouterApp pass in its place ("true"): true is truthy, so s is true
\* and s.start / s.stop are not functions.

\* The target file on disk: absent, absent together with the directory it is to
\* be written to, or one of the contents.
NoDirectory == NumContents + 1

\* fs.readFile fails with ENOENT in either case of absence: null
readFileSafe(d) == IF d = NoDirectory THEN Absent ELSE d

SpinnerThrows(sp) == sp = "true"

\* (mutant) only a cancellation keeps the file
shouldOverwrite_UnlessCancelled(answer) == answer # "cancel"

\* if (shouldOverwrite)
shouldOverwrite(answer) == answer = "yes"

\* The call up to its return, its throw, or the prompt it suspends on.
\* fs.writeFile throws when the directory of the file does not exist: the call
\* makes no directory.
overwriteFileWithConfirmation(newContent, sp) ==
    LET existingContent == readFileSafe(disk)
        c == [NoCall EXCEPT !.newContent = newContent, !.spinner = sp,
                            !.before = existingContent]
    IN /\ calls' = calls + 1
       /\ UNCHANGED exitCode
       /\ IF existingContent = Absent
          THEN IF SpinnerThrows(sp) \/ disk = NoDirectory
               THEN call' = [c EXCEPT !.pc = "threw"] /\ UNCHANGED disk
               ELSE call' = [c EXCEPT !.pc = "done", !.wrote = TRUE] /\ disk' = newContent
          ELSE IF existingContent = newContent
          THEN /\ call' = [c EXCEPT !.pc = IF SpinnerThrows(sp) THEN "threw" ELSE "done"]
               /\ UNCHANGED disk
          ELSE /\ UNCHANGED disk
               /\ call' = IF SpinnerThrows(sp)
                          THEN [c EXCEPT !.pc = "threw", !.diffShown = TRUE]
                          ELSE [c EXCEPT !.pc = "confirm", !.diffShown = TRUE,
                                         !.prompted = TRUE]

CanCall == exitCode = Running /\ call.pc \in {"idle", "done", "threw"} /\ calls < MaxCalls

\* The setup commands write the route and middleware files.
OverwriteFromSetup ==
    /\ CanCall
    /\ \E newContent \in Contents, sp \in {"none", "spinner"} :
         overwriteFileWithConfirmation(newContent, sp)
    /\ Frame({"gate"})

\* updateAppRouterLayout / updatePagesRouterApp: the file was read and the
\* mutator changed its content.
OverwriteFromUpdate ==
    /\ CanCall
    /\ readFileSafe(disk) # Absent
    /\ \E newContent \in Contents \ {disk} : overwriteFileWithConfirmation(newContent, "true")
    /\ Frame({"gate"})

\* The user answers the confirm prompt: Yes, No, or cancels it.
ConfirmOverwrite ==
    /\ call.pc = "confirm"
    /\ \E answer \in {"yes", "no", "cancel"} :
         IF answer = "cancel"
         THEN /\ call' = [call EXCEPT !.pc = "exited", !.answer = answer]
              /\ exitCode' = <<0>>
              /\ UNCHANGED disk
         ELSE IF shouldOverwrite(answer)
         THEN /\ call' = [call EXCEPT !.pc = "done", !.answer = answer, !.wrote = TRUE]
              /\ disk' = call.newContent
              /\ UNCHANGED exitCode
         ELSE /\ call' = [call EXCEPT !.pc = "done", !.answer = answer]
              /\ UNCHANGED <<disk, exitCode>>
    /\ UNCHANGED calls
    /\ Frame({"gate"})

GateInit ==
    /\ mode = "layout" /\ input = [imports |-> <<>>, fn |-> "app", jsx |-> <<>>]
    /\ rejects = FALSE /\ runs = <<>>
    /\ disk \in Contents \cup {Absent, NoDirectory}
    /\ call = NoCall /\ calls = 0 /\ exitCode = Running
    /\ IdleExcept({"mutator", "gate"})

GateNext == OverwriteFromSetup \/ OverwriteFromUpdate \/ ConfirmOverwrite

GateSpec == GateInit /\ [][GateNext]_vars

-----------------------------------------------------------------------------
\* testEnvToUrl and urlToTestEnv. A string is a sequence of lexemes: a literal
\* piece of text, or a run of decimal digits held as the number it denotes.

Lit(s) == [k |-> "lit", s |-> s, n |-> 0]
Num(n) == [k |-> "num", s |-> "", n |-> n]

LF == Lit("\n")
CR == Lit("\r")
EQ == Lit("=")
SP == Lit(" ")

Schemes == {"http://", "https://"}
Hosts == {"localhost", "LOCALHOST", "example.com"}
Ports == {1, 80, 443, 3000, 3001, 8080, 65535}
DefaultPort == 3000
MaxUrlPort == 65535

Localhost(port) == [type |-> "Localhost", port |-> port]
SchemeAndDomain(v) == [type |-> "SchemeAndDomain", scheme_and_domain |-> v]

\* parseInt(text, 10): the leading digits of the text, NaN when there are none.
ParseInt(text) ==
    IF Len(text) >= 1 /\ text[1].k = "num"
    THEN [nan |-> FALSE, n |-> text[1].n]
    ELSE [nan |-> TRUE, n |-> 0]

\* new URL(url): the host is lowercased, the port is '' when it is absent or the
\* default port of the scheme, a port above 65535 is rejected; text:rest without
\* slashes is a URL with the scheme text and no host.
SchemeDefaultPort(scheme) == IF scheme = "http://" THEN 80 ELSE 443
ToLowerCase(host) == IF host = "LOCALHOST" THEN "localhost" ELSE host
NotUrl == [ok |-> FALSE, hostname |-> "", port |-> <<>>]
URL(url) ==
    IF Len(url) >= 2 /\ url[1].k = "lit" /\ url[1].s \in Schemes /\ url[2].k = "lit"
         /\ url[2].s \in Hosts
    THEN IF Len(url) >= 4 /\ url[3] = Lit(":") /\ url[4].k = "num"
         THEN IF url[4].n > MaxUrlPort THEN NotUrl
              ELSE [ok |-> TRUE, hostname |-> ToLowerCase(url[2].s),
                    port |-> IF url[4].n = SchemeDefaultPort(url[1].s)
                             THEN <<>> ELSE <<url[4]>>]
         ELSE IF Len(url) = 2 \/ (url[3].k = "lit" /\ url[3].s = "/app")
         THEN [ok |-> TRUE, hostname |-> ToLowerCase(url[2].s), port |-> <<>>]
         ELSE NotUrl
    ELSE IF Len(url) >= 2 /\ url[1].k = "lit" /\ url[1].s \in Hosts /\ url[2] = Lit(":")
    THEN [ok |-> TRUE, hostname |-> "", port |-> <<>>]
    ELSE NotUrl

testEnvToUrl(testEnv) ==
    IF testEnv.type = "Localhost"
    THEN <<Lit("http://"), Lit("localhost"), Lit(":"), Num(testEnv.port)>>
    ELSE IF testEnv.type = "SchemeAndDomain"
    THEN testEnv.scheme_and_domain
    ELSE <<>>

\* (mutant) the origin of the parsed URL is kept in place of the text
urlToTestEnv_Origin(url) ==
    LET parsedUrl == URL(url)
        port == ParseInt(url)
    IN IF parsedUrl.ok
       THEN IF parsedUrl.hostname = "localhost"
            THEN Localhost(ParseInt(IF parsedUrl.port = <<>> THEN <<Num(DefaultPort)>>
                                    ELSE parsedUrl.port).n)
            ELSE SchemeAndDomain(IF url[1].s \in Schemes
                                 THEN <<url[1], url[2]>>
                                        \o (IF parsedUrl.port = <<>> THEN <<>>
                                            ELSE <<Lit(":")>> \o parsedUrl.port)
                                 ELSE url)
       ELSE IF ~port.nan THEN Localhost(port.n) ELSE Localhost(DefaultPort)

urlToTestEnv(url) ==
    LET parsedUrl == URL(url)
        port == ParseInt(url)
    IN IF parsedUrl.ok
       THEN IF parsedUrl.hostname = "localhost"
            THEN Localhost(ParseInt(IF parsedUrl.port = <<>> THEN <<Num(DefaultPort)>>
                                    ELSE parsedUrl.port).n)
            ELSE SchemeAndDomain(url)
       ELSE IF ~port.nan THEN Localhost(port.n) ELSE Localhost(DefaultPort)

\* The strings and the TestEnv values the conversions are applied to.
UrlStrings ==
    {<<Lit(sc), Lit(h)>> \o pt \o path :
        sc \in Schemes, h \in Hosts,
        pt \in {<<>>} \cup {<<Lit(":"), Num(p)>> : p \in Ports \cup {MaxUrlPort + 1}},
        path \in {<<>>, <<Lit("/app")>>}}
      \cup {<<Num(p)>> : p \in Ports}
      \cup {<<Num(p), Lit("abc")>> : p \in Ports}
      \cup {<<Lit(h), Lit(":"), Num(p)>> : h \in Hosts, p \in Ports}
      \cup {<<Lit("not-a-url-or-port")>>, <<>>}
TestEnvs == {Localhost(p) : p \in Ports} \cup {SchemeAndDomain(u) : u \in UrlStrings}

UrlInit ==
    /\ IdleExcept({"url"})
    /\ chain \in {<<[url |-> u]>> : u \in UrlStrings}
                   \cup {<<[testEnv |-> e]>> : e \in TestEnvs}

IsUrl(v) == "url" \in DOMAIN v

UrlToTestEnv ==
    /\ chain # <<>> /\ Len(chain) < MaxChain
    /\ IsUrl(chain[Len(chain)])
    /\ chain' = Append(chain, [testEnv |-> urlToTestEnv(chain[Len(chain)].url)])
    /\ Frame({"url"})

TestEnvToUrl ==
    /\ chain # <<>> /\ Len(chain) < MaxChain
    /\ ~IsUrl(chain[Len(chain)])
    /\ chain' = Append(chain, [url |-> testEnvToUrl(chain[Len(chain)].testEnv)])
    /\ Frame({"url"})

UrlNext == UrlToTestEnv \/ TestEnvToUrl

UrlSpec == UrlInit /\ [][UrlNext]_vars

-----------------------------------------------------------------------------
\* getPort builds the PortOrUrl either from the port of the dev script or from
\* the text the user entered.

getPortFromScript(port) ==
    [port |-> port, url |-> testEnvToUrl(Localhost(port)), testEnv |-> Localhost(port)]

\* (mutant) the url is the text as entered
getPortFromInput_RawUrl(inputStr) ==
    LET testEnv == urlToTestEnv(inputStr)
    IN [port |-> IF testEnv.type = "Localhost" THEN testEnv.port ELSE DefaultPort,
        url |-> inputStr,
        testEnv |-> testEnv]

getPortFromInput(inputStr) ==
    LET testEnv == urlToTestEnv(inputStr)
    IN [port |-> IF testEnv.type = "Localhost" THEN testEnv.port ELSE DefaultPort,
        url |-> testEnvToUrl(testEnv),
        testEnv |-> testEnv]

-----------------------------------------------------------------------------
\* configureNextJsRedirectPaths. The environment of a run: whether the CLI holds
\* an API key, whether the fetch and the update succeed, and what the user
\* answers at the confirm prompt.

loginRedirectPath == "/api/auth/callback"
logoutRedirectPath == "/api/auth/logout"
NoTestEnv == [type |-> "null"]

ReconcileEnvs ==
    [apiKey : BOOLEAN, fetchOk : BOOLEAN, answer : {"yes", "no", "cancel"},
     updateOk : BOOLEAN]

currentUrl(currentSettings) ==
    IF currentSettings.test_env # NoTestEnv
    THEN testEnvToUrl(currentSettings.test_env) ELSE <<Lit("none")>>

\* (mutant) the logout redirect path is not compared
needsUpdate_NoLogout(currentSettings, p) ==
    \/ currentSettings.login_redirect_path # loginRedirectPath
    \/ currentUrl(currentSettings) # p.url

needsUpdate(currentSettings, p) ==
    \/ currentSettings.login_redirect_path # loginRedirectPath
    \/ currentSettings.logout_redirect_path # logoutRedirectPath
    \/ currentUrl(currentSettings) # p.url

\* The object sent by updateFrontendIntegration.
UpdateRequest(p) ==
    [test_env |-> p.testEnv, login_redirect_path |-> loginRedirectPath,
     logout_redirect_path |-> logoutRedirectPath]

NoRun ==
    [outcome |-> "returned", fetched |-> FALSE, needsUpdate |-> FALSE,
     prompted |-> FALSE, answer |-> "none", updates |-> <<>>]

\* (mutant) a declined update is thrown like a cancelled one
configureNextJsRedirectPaths_DeclineThrows(currentSettings, p, e) ==
    IF ~e.apiKey \/ ~e.fetchOk THEN [NoRun EXCEPT !.outcome = "exit1"]
    ELSE IF ~needsUpdate(currentSettings, p) THEN [NoRun EXCEPT !.fetched = TRUE]
    ELSE LET r == [NoRun EXCEPT !.fetched = TRUE, !.needsUpdate = TRUE,
                                !.prompted = TRUE, !.answer = e.answer]
         IN IF e.answer \in {"cancel", "no"} THEN [r EXCEPT !.outcome = "threw"]
            ELSE [r EXCEPT !.updates = <<UpdateRequest(p)>>,
                           !.outcome = IF e.updateOk THEN "returned" ELSE "exit1"]

\* One run: what it did and how it ended (returned, threw, or process.exit(1)).
configureNextJsRedirectPaths(currentSettings, p, e) ==
    IF ~e.apiKey \/ ~e.fetchOk THEN [NoRun EXCEPT !.outcome = "exit1"]
    ELSE IF ~needsUpdate(currentSettings, p) THEN [NoRun EXCEPT !.fetched = TRUE]
    ELSE LET r == [NoRun EXCEPT !.fetched = TRUE, !.needsUpdate = TRUE,
                                !.prompted = TRUE, !.answer = e.answer]
         IN IF e.answer = "cancel" THEN [r EXCEPT !.outcome = "threw"]
            ELSE IF e.answer = "no" THEN r
            ELSE [r EXCEPT !.updates = <<UpdateRequest(p)>>,
                           !.outcome = IF e.updateOk THEN "returned" ELSE "exit1"]

\* The dashboard holds what a successful update call sent.
RemoteAfter(currentSettings, r, e) ==
    IF r.updates # <<>> /\ e.updateOk THEN r.updates[1] ELSE currentSettings

RemoteSettings ==
    [test_env : {NoTestEnv, Localhost(DefaultPort), Localhost(80),
                 SchemeAndDomain(<<Lit("https://"), Lit("example.com")>>),
                 SchemeAndDomain(<<Lit("http://"), Lit("localhost"), Lit(":"),
                                   Num(DefaultPort)>>)},
     login_redirect_path : {loginRedirectPath, "/login"},
     logout_redirect_path : {logoutRedirectPath, "/"}]

PortOrUrls ==
    {getPortFromScript(p) : p \in {DefaultPort, 80}}
      \cup {getPortFromInput(u) :
              u \in {<<Lit("http://"), Lit("localhost")>>,
                     <<Lit("http://"), Lit("localhost"), Lit(":"), Num(80)>>,
                     <<Lit("https://"), Lit("example.com")>>,
                     <<Num(8080)>>}}

RemoteInit ==
    /\ IdleExcept({"remote"})
    /\ remote \in RemoteSettings
    /\ portOrUrl \in PortOrUrls
    /\ reconciles = <<>>

ConfigureNextJsRedirectPaths ==
    /\ Len(reconciles) < MaxRuns
    /\ \E e \in ReconcileEnvs :
         LET r == configureNextJsRedirectPaths(remote, portOrUrl, e)
         IN /\ reconciles' = Append(reconciles, [run |-> r, current |-> remote])
            /\ remote' = RemoteAfter(remote, r, e)
    /\ UNCHANGED portOrUrl
    /\ Frame({"remote"})

RemoteSpec == RemoteInit /\ [][ConfigureNextJsRedirectPaths]_vars

-----------------------------------------------------------------------------
\* parseEnvFile and updateEnvFile. The content of the env file is a sequence of
\* lexemes: names, values, '=', blanks, the comment mark, '\n' and '\r'.

NoFile == [exists |-> FALSE, content |-> <<>>]
File(content) == [exists |-> TRUE, content |-> content]

\* content.split('\n')
RECURSIVE Split(_)
Split(content) ==
    IF \E i \in 1..Len(content) : content[i] = LF
    THEN LET i == CHOOSE j \in 1..Len(content) :
                    content[j] = LF /\ \A h \in 1..(j - 1) : content[h] # LF
         IN <<SubSeq(content, 1, i - 1)>> \o Split(SubSeq(content, i + 1, Len(content)))
    ELSE <<content>>

\* text.trim()
RECURSIVE Trim(_)
Trim(text) ==
    IF text = <<>> THEN text
    ELSE IF text[1] \in {SP, CR, LF} THEN Trim(Tail(text))
    ELSE IF text[Len(text)] \in {SP, CR, LF} THEN Trim(SubSeq(text, 1, Len(text) - 1))
    ELSE text

\* line.match(/^([^=]+)=(.*)$/): the first '=' has something before it, and
\* what follows it holds no line terminator ('.' matches none, '$' is the end).
FirstEq(line) ==
    IF \E i \in 1..Len(line) : line[i] = EQ
    THEN CHOOSE i \in 1..Len(line) : line[i] = EQ /\ \A h \in 1..(i - 1) : line[h] # EQ
    ELSE 0

LineMatches(line) ==
    /\ FirstEq(line) >= 2
    /\ \A i \in (FirstEq(line) + 1)..Len(line) : line[i] # CR

\* The keys of the map parseEnvFile returns.
parseEnvFile(file) ==
    IF ~file.exists THEN {}
    ELSE LET lines == Split(file.content)
         IN {Trim(SubSeq(lines[i], 1, FirstEq(lines[i]) - 1)) :
               i \in {j \in 1..Len(lines) : LineMatches(lines[j])}}

\* The lines appended for a missing variable.
EnvEntry(config) ==
    <<Lit("# "), Lit(config.description), LF, Lit(config.key), EQ>> \o config.value \o <<LF>>

RECURSIVE AppendMissing(_, _, _)
AppendMissing(updatedContent, existingEnv, required) ==
    IF required = <<>> THEN updatedContent
    ELSE IF <<Lit(required[1].key)>> \in existingEnv
    THEN AppendMissing(updatedContent, existingEnv, Tail(required))
    ELSE AppendMissing(
           (IF updatedContent # <<>> /\ updatedContent[Len(updatedContent)] # LF
            THEN updatedContent \o <<LF>> ELSE updatedContent) \o EnvEntry(required[1]),
           existingEnv, Tail(required))

\* The file after the call, and whether the call wrote it.
updateEnvFile(file, required) ==
    LET existingEnv == parseEnvFile(file)
        fileContent == IF file.exists THEN file.content ELSE <<>>
        missingVars == {i \in 1..Len(required) : <<Lit(required[i].key)>> \notin existingEnv}
    IN IF missingVars # {}
       THEN [written |-> TRUE,
             file |-> File(AppendMissing(fileContent, existingEnv, required))]
       ELSE [written |-> FALSE, file |-> file]

\* The env files and the required variables of the runs.
EnvLineTexts ==
    {<<Lit("NEXT_PUBLIC_AUTH_URL"), EQ, Lit("https://auth.example.com")>>,
     <<Lit("PROPELAUTH_API_KEY"), EQ, Lit("api_123456")>>,
     <<Lit("PROPELAUTH_API_KEY"), EQ>>,
     <<SP, Lit("PROPELAUTH_API_KEY"), SP, EQ, SP, Lit("a"), EQ, Lit("b")>>,
     <<Lit("PROPELAUTH_API_KEY"), EQ, Lit("api_123456"), CR>>,
     <<Lit("# "), Lit("PROPELAUTH_API_KEY"), EQ, Lit("old")>>,
     <<Lit("PROPELAUTH_API_KEY")>>,
     <<>>}

RECURSIVE JoinLines(_)
JoinLines(lines) ==
    IF Len(lines) = 0 THEN <<>>
    ELSE IF Len(lines) = 1 THEN lines[1]
    ELSE lines[1] \o <<LF>> \o JoinLines(Tail(lines))

EnvFiles ==
    {NoFile} \cup
    {File(JoinLines(lines) \o end) :
        lines \in UNION {[1..n -> EnvLineTexts] : n \in 1..MaxLines},
        end \in {<<>>, <<LF>>}}

Var(key, description, value) == [key |-> key, description |-> description, value |-> value]
RequiredVarLists ==
    {<<Var("PROPELAUTH_API_KEY", "Your Backend Integration API Key for PropelAuth", value)>>
        : value \in {<<>>, <<Lit("api_123456")>>}}
      \cup {<<Var("NEXT_PUBLIC_AUTH_URL", "Your Auth URL", <<Lit("https://auth.example.com")>>),
              Var("PROPELAUTH_API_KEY", "Your Backend Integration API Key for PropelAuth",
                  <<Lit("api_123456")>>)>>}

EnvInit ==
    /\ IdleExcept({"env"})
    /\ envFile \in EnvFiles
    /\ requiredVars \in RequiredVarLists
    /\ envRuns = <<>>

UpdateEnvFile ==
    /\ Len(envRuns) < MaxRuns
    /\ LET r == updateEnvFile(envFile, requiredVars)
       IN /\ envRuns' = Append(envRuns, [written |-> r.written, before |-> envFile])
          /\ envFile' = r.file
    /\ UNCHANGED requiredVars
    /\ Frame({"env"})

EnvSpec == EnvInit /\ [][UpdateEnvFile]_vars


\* line.split('=')
RECURSIVE SplitEq(_)
SplitEq(line) ==
    IF FirstEq(line) = 0 THEN <<line>>
    ELSE <<SubSeq(line, 1, FirstEq(line) - 1)>>
           \o SplitEq(SubSeq(line, FirstEq(line) + 1, Len(line)))

\* parts.join('=')
RECURSIVE JoinEq(_)
JoinEq(parts) ==
    IF Len(parts) = 0 THEN <<>>
    ELSE IF Len(parts) = 1 THEN parts[1]
    ELSE parts[1] \o <<EQ>> \o JoinEq(Tail(parts))

\* parseEnvVars: the record of the keys and values, a later line replacing an
\* earlier one with the same key.
\* (mutant) the value ends at the second '='
parseEnvVars_SecondPart(envContent) ==
    LET envLines == Split(envContent)
        parts(i) == SplitEq(envLines[i])
        entries == {i \in 1..Len(envLines) : Len(parts(i)) >= 2}
        key(i) == Trim(parts(i)[1])
    IN [k \in {key(i) : i \in entries} |->
          LET i == CHOOSE i \in entries :
                     key(i) = k /\ \A j \in entries : key(j) = k => j <= i
          IN Trim(parts(i)[2])]

parseEnvVars(envContent) ==
    LET envLines == Split(envContent)
        parts(i) == SplitEq(envLines[i])
        entries == {i \in 1..Len(envLines) : Len(parts(i)) >= 2}
        key(i) == Trim(parts(i)[1])
    IN [k \in {key(i) : i \in entries} |->
          LET i == CHOOSE i \in entries :
                     key(i) = k /\ \A j \in entries : key(j) = k => j <= i
          IN Trim(JoinEq(Tail(parts(i))))]

\* parseEnvVars called on its own.
ParseInit ==
    /\ IdleExcept({"env"})
    /\ envFile \in (EnvFiles \ {NoFile}) \cup
         {File(<<LF, Lit("NEXT_PUBLIC_AUTH_URL"), EQ, Lit("\"https://auth.example.com\""), LF,
                 Lit("PROPELAUTH_API_KEY"), EQ, Lit("'api_123456'"), LF>>),
          File(<<Lit("PROPELAUTH_VERIFIER_KEY"), EQ, Lit("abc123"), EQ, Lit("xyz789"), EQ,
                 Lit("qwerty"), LF>>),
          File(<<EQ, Lit("api_123456")>>),
          File(<<>>)}
    /\ requiredVars = <<>>
    /\ envRuns = <<>>

ParseEnvVars ==
    /\ envRuns = <<>>
    /\ envRuns' = <<[parsed |-> parseEnvVars(envFile.content), before |-> envFile]>>
    /\ UNCHANGED <<envFile, requiredVars>>
    /\ Frame({"env"})

ParseSpec == ParseInit /\ [][ParseEnvVars]_vars

-----------------------------------------------------------------------------
\* setupNextJsAppRouter and setupNextJsPagesRouter, one action for each call
\* they await. A call returns, throws into the catch block of the run (which
\* exits with code 1), or exits the process itself. The two commands make the
\* same calls up to the route file; then the first writes the middleware file
\* and updates the layout, the second updates _app.tsx.

Prompt(what, answer) == [kind |-> "prompt", what |-> what, answer |-> answer]
Change(what) == [kind |-> "change", what |-> what, answer |-> "none"]

TemplateContent == 1
OtherContent == 2
UpdatedLayoutContent == 3

\* overwriteFileWithConfirmation as a function of the file, the new content,
\* the spinner argument and the answer to its prompt.
\* (mutant) a cancelled prompt is a declined one
overwriteOutcome_CancelDeclines(existingContent, newContent, sp, answer) ==
    LET r == [content |-> existingContent, outcome |-> "returned", did |-> <<>>]
    IN IF existingContent = Absent
       THEN IF SpinnerThrows(sp) THEN [r EXCEPT !.outcome = "threw"]
            ELSE [r EXCEPT !.content = newContent, !.did = <<Change("file")>>]
       ELSE IF existingContent = newContent
       THEN IF SpinnerThrows(sp) THEN [r EXCEPT !.outcome = "threw"] ELSE r
       ELSE IF SpinnerThrows(sp) THEN [r EXCEPT !.outcome = "threw"]
       ELSE IF shouldOverwrite(answer)
       THEN [r EXCEPT !.content = newContent,
                      !.did = <<Prompt("overwrite", answer), Change("file")>>]
       ELSE [r EXCEPT !.did = <<Prompt("overwrite", answer)>>]

overwriteOutcome(existingContent, newContent, sp, answer) ==
    LET r == [content |-> existingContent, outcome |-> "returned", did |-> <<>>]
    IN IF existingContent = Absent
       THEN IF SpinnerThrows(sp) THEN [r EXCEPT !.outcome = "threw"]
            ELSE [r EXCEPT !.content = newContent, !.did = <<Change("file")>>]
       ELSE IF existingContent = newContent
       THEN IF SpinnerThrows(sp) THEN [r EXCEPT !.outcome = "threw"] ELSE r
       ELSE IF SpinnerThrows(sp) THEN [r EXCEPT !.outcome = "threw"]
       ELSE IF answer = "cancel"
       THEN [r EXCEPT !.outcome = "exit0", !.did = <<Prompt("overwrite", answer)>>]
       ELSE IF shouldOverwrite(answer)
       THEN [r EXCEPT !.content = newContent,
                      !.did = <<Prompt("overwrite", answer), Change("file")>>]
       ELSE [r EXCEPT !.did = <<Prompt("overwrite", answer)>>]

\* config: no usable configuration, a default project, or always ask.
promptForProjectIfNeeded(config, fetchOk, hasProjects, answer) ==
    IF config = "none" THEN [outcome |-> "exit1", did |-> <<>>]
    ELSE IF config = "use-default" THEN [outcome |-> "returned", did |-> <<>>]
    ELSE IF ~fetchOk \/ ~hasProjects THEN [outcome |-> "exit1", did |-> <<>>]
    ELSE IF answer = "cancel"
    THEN [outcome |-> "exit0", did |-> <<Prompt("project", answer)>>]
    ELSE [outcome |-> "returned", did |-> <<Prompt("project", answer)>>]

\* package.json: whether it can be read, whether it names next among its
\* dependencies, and its dev script ('' when it has none).
NoPackageJson == [readable |-> FALSE, next |-> FALSE, dev |-> <<>>]
PackageJson(next, dev) == [readable |-> TRUE, next |-> next, dev |-> dev]

\* validateNextJsProject, then the check in the run of the router directory of
\* the command (appRouterDir or pagesRouterDir).
\* (mutant) a project without the router directory is accepted
validateNextJsProject_AnyRouter(pkg, routerDir) ==
    IF ~pkg.readable \/ ~pkg.next
    THEN [outcome |-> "exit1", did |-> <<>>]
    ELSE [outcome |-> "returned", did |-> <<>>]

validateNextJsProject(pkg, routerDir) ==
    IF ~pkg.readable \/ ~pkg.next \/ ~routerDir
    THEN [outcome |-> "exit1", did |-> <<>>]
    ELSE [outcome |-> "returned", did |-> <<>>]

\* devScript.match(/(?:--|:)port\s+(\d+)/): the digits after the first '--port'
\* or ':port' that is followed by blanks and then a digit; <<>> without a match.
\* (mutant) the blanks are optional and '=' is taken for one
portMatch_AnySeparator(devScript) ==
    LET flag(i) == devScript[i] \in {Lit("--port"), Lit(":port")}
        digits(i) == {j \in (i + 1)..Len(devScript) :
                        /\ devScript[j].k = "num"
                        /\ \A h \in (i + 1)..(j - 1) : devScript[h] \in {SP, EQ}}
        starts == {i \in 1..Len(devScript) : flag(i) /\ digits(i) # {}}
    IN IF starts = {} THEN <<>>
       ELSE LET i == CHOOSE i \in starts : \A h \in starts : i <= h
            IN <<devScript[CHOOSE j \in digits(i) : TRUE]>>

portMatch(devScript) ==
    LET flag(i) == devScript[i] \in {Lit("--port"), Lit(":port")}
        digits(i) == {j \in (i + 2)..Len(devScript) :
                        /\ devScript[j].k = "num"
                        /\ \A h \in (i + 1)..(j - 1) : devScript[h] = SP}
        starts == {i \in 1..Len(devScript) : flag(i) /\ digits(i) # {}}
    IN IF starts = {} THEN <<>>
       ELSE LET i == CHOOSE i \in starts : \A h \in starts : i <= h
            IN <<devScript[CHOOSE j \in digits(i) : TRUE]>>

\* getPort: the port of the dev script when package.json can be read and the
\* script names one, else the answer to the prompt.
getPort(pkg, userInput) ==
    IF pkg.readable /\ portMatch(pkg.dev) # <<>>
    THEN [outcome |-> "returned", did |-> <<>>,
          value |-> getPortFromScript(ParseInt(portMatch(pkg.dev)).n)]
    ELSE IF userInput = [cancel |-> TRUE]
    THEN [outcome |-> "threw", did |-> <<Prompt("url", "cancel")>>, value |-> Unset]
    ELSE [outcome |-> "returned", did |-> <<Prompt("url", "text")>>,
          value |-> getPortFromInput(userInput.text)]

EnvironmentEnvs ==
    [apiKey : BOOLEAN, fetchOk : BOOLEAN, createNew : {"yes", "no", "cancel"},
     keyName : {"text", "cancel"}, createOk : BOOLEAN]

\* The variables the call asks updateEnvFile for; the first and the third value
\* come from the backend integration, the second is the API key found in the
\* env file or just created, p is the PortOrUrl the caller passed (Unset: none).
customEnvVars(apiKeyValue, p) ==
    <<Var("NEXT_PUBLIC_AUTH_URL", "Your Auth URL", <<Lit("https://auth.example.com")>>),
      Var("PROPELAUTH_API_KEY", "Your Backend Integration API Key for PropelAuth", apiKeyValue),
      Var("PROPELAUTH_VERIFIER_KEY", "Verifier Key from the dashboard", <<Lit("verifier_123456")>>),
      Var("PROPELAUTH_REDIRECT_URI", "Redirect URI for authentication callbacks",
          <<Lit("http://localhost:"),
            Num(IF p # Unset /\ p.testEnv.type = "Localhost" THEN p.port ELSE DefaultPort),
            Lit("/api/auth/callback")>>)>>

\* configureNextJsEnvironmentVariables on the env file: what the call did, and
\* the file after it.
configureNextJsEnvironmentVariables(file, p, e) ==
    LET existingEnvVars == parseEnvVars(IF file.exists THEN file.content ELSE <<>>)
        found == IF <<Lit("PROPELAUTH_API_KEY")>> \in DOMAIN existingEnvVars
                 THEN existingEnvVars[<<Lit("PROPELAUTH_API_KEY")>>] ELSE <<>>
        stop(outcome, did) == [outcome |-> outcome, did |-> did, file |-> file]
        update(did, apiKeyValue) ==
            LET u == updateEnvFile(file, customEnvVars(apiKeyValue, p))
            IN [outcome |-> "returned",
                did |-> did \o (IF u.written THEN <<Change("env")>> ELSE <<>>),
                file |-> u.file]
    IN IF ~e.apiKey \/ ~e.fetchOk THEN stop("exit1", <<>>)
       ELSE IF found # <<>> THEN update(<<>>, found)
       ELSE IF e.createNew = "cancel" THEN stop("threw", <<Prompt("createKey", "cancel")>>)
       ELSE IF e.createNew = "no" THEN update(<<Prompt("createKey", "no")>>, <<>>)
       ELSE IF e.keyName = "cancel"
       THEN stop("threw", <<Prompt("createKey", "yes"), Prompt("keyName", "cancel")>>)
       ELSE IF ~e.createOk
       THEN stop("exit1", <<Prompt("createKey", "yes"), Prompt("keyName", "text")>>)
       ELSE update(<<Prompt("createKey", "yes"), Prompt("keyName", "text"), Change("apiKey")>>,
                   <<Lit("new_api_key")>>)

promptForJsInstall(choice, installOk) ==
    IF choice = "cancel"
    THEN [outcome |-> "exit0", did |-> <<Prompt("install", "cancel")>>]
    ELSE IF choice = "skip" \/ ~installOk
    THEN [outcome |-> "returned", did |-> <<Prompt("install", choice)>>]
    ELSE [outcome |-> "returned", did |-> <<Prompt("install", choice), Change("package")>>]

\* result: what modifyAppRouterLayout reports of the layout file.
updateAppRouterLayout(layoutContent, result) ==
    IF result = "modified"
    THEN LET r == overwriteOutcome(layoutContent, UpdatedLayoutContent, "true", "none")
         IN IF r.outcome = "threw" THEN [success |-> FALSE, content |-> layoutContent]
            ELSE [success |-> TRUE, content |-> r.content]
    ELSE [success |-> result = "hasAuthProvider", content |-> layoutContent]

\* result: what modifyPagesRouterApp reports of the _app.tsx file.
updatePagesRouterApp(appContent, result) ==
    IF result = "modified"
    THEN LET r == overwriteOutcome(appContent, UpdatedLayoutContent, "true", "none")
         IN IF r.outcome = "threw" THEN [success |-> FALSE, content |-> appContent]
            ELSE [success |-> TRUE, content |-> r.content]
    ELSE [success |-> result = "hasAuthProvider", content |-> appContent]

\* The effects of a run of configureNextJsRedirectPaths.
ReconcileDid(r) ==
    (IF r.prompted THEN <<Prompt("remoteUpdate", r.answer)>> ELSE <<>>)
      \o (IF r.updates # <<>> THEN <<Change("remote")>> ELSE <<>>)

\* How the run goes on after a call.
Continue(outcome, did, next) ==
    /\ effects' = effects \o did
    /\ command' = command
    /\ IF outcome = "returned"
       THEN step' = next /\ setupExit' = setupExit
       ELSE step' = "exited" /\ setupExit' = <<IF outcome = "exit0" THEN 0 ELSE 1>>

\* The env file of a setup run: none, one with the API key only, one with every
\* variable, and one with every variable and an empty API key.
SetupEnvFiles ==
    {NoFile, File(<<Lit("PROPELAUTH_API_KEY"), EQ, Lit("api_123456"), LF>>)}
      \cup {updateEnvFile(NoFile, customEnvVars(k, Unset)).file : k \in {<<>>, <<Lit("api_123456")>>}}

\* The project of a run: the route and layout files lie in the app directory
\* and _app.tsx in the pages directory, so there is none without its directory.
\* isUsingSrcDir is true of every project whose absolute path holds 'src', so
\* the directory of the middleware file, <project>/src then, need not exist
\* (middlewareDir); middleware is then the file at the root of the project.
\* The project the App Router command runs in has no pages directory, the one
\* the Pages Router command runs in no layout.
SetupInit ==
    /\ IdleExcept({"setup", "remote"})
    /\ command \in {"app", "pages"}
    /\ step = "project" /\ setupExit = Running /\ effects = <<>>
    /\ files \in [config : {"none", "use-default", "always-ask"},
                  pkg : {NoPackageJson, PackageJson(FALSE, <<>>),
                         PackageJson(TRUE, <<Lit("next dev")>>),
                         PackageJson(TRUE, <<Lit("next dev"), SP, Lit("--port"), SP,
                                             Num(DefaultPort)>>)},
                  appRouterDir : BOOLEAN,
                  pagesRouterDir : BOOLEAN,
                  middlewareDir : BOOLEAN,
                  route : {Absent, TemplateContent, OtherContent},
                  middleware : {Absent, TemplateContent, OtherContent},
                  layout : {Absent, OtherContent},
                  app : {Absent, OtherContent}]
    /\ ~files.appRouterDir => (files.route = Absent /\ files.layout = Absent)
    /\ ~files.pagesRouterDir => files.app = Absent
    /\ command = "app" => ~files.pagesRouterDir
    /\ command = "pages" => (files.layout = Absent /\ files.middlewareDir)
    /\ remote \in {s \in RemoteSettings :
                     /\ s.test_env \in {NoTestEnv, Localhost(DefaultPort)}
                     /\ s.login_redirect_path = loginRedirectPath}
    /\ portOrUrl = Unset
    /\ reconciles = <<>>

PromptForProjectIfNeeded ==
    /\ step = "project"
    /\ \E fetchOk \in BOOLEAN, hasProjects \in BOOLEAN, answer \in {"project", "cancel"} :
         LET r == promptForProjectIfNeeded(files.config, fetchOk, hasProjects, answer)
         IN Continue(r.outcome, r.did, "validate")
    /\ UNCHANGED <<files, remoteVars>>
    /\ Frame({"setup", "remote"})

ValidateNextJsProject ==
    /\ step = "validate"
    /\ LET r == validateNextJsProject(files.pkg,
                                      IF command = "app" THEN files.appRouterDir
                                      ELSE files.pagesRouterDir)
       IN Continue(r.outcome, r.did, "getPort")
    /\ UNCHANGED <<files, remoteVars>>
    /\ Frame({"setup", "remote"})

GetPort ==
    /\ step = "getPort"
    /\ \E userInput \in {[cancel |-> TRUE],
                         [text |-> <<Lit("http://"), Lit("localhost"), Lit(":"), Num(80)>>],
                         [text |-> <<Lit("https://"), Lit("example.com")>>]} :
         LET r == getPort(files.pkg, userInput)
         IN /\ Continue(r.outcome, r.did, "environment")
            /\ portOrUrl' = r.value
    /\ UNCHANGED <<files, remote, reconciles>>
    /\ Frame({"setup", "remote"})

\* setupNextJsAppRouter passes the PortOrUrl of getPort, setupNextJsPagesRouter
\* passes none.
ConfigureNextJsEnvironmentVariables ==
    /\ step = "environment"
    /\ \E e \in EnvironmentEnvs, file \in SetupEnvFiles :
         LET r == configureNextJsEnvironmentVariables(
                      file, IF command = "app" THEN portOrUrl ELSE Unset, e)
         IN Continue(r.outcome, r.did, "redirect")
    /\ UNCHANGED <<files, remoteVars>>
    /\ Frame({"setup", "remote"})

SetupRedirectPaths ==
    /\ step = "redirect"
    /\ \E e \in ReconcileEnvs :
         LET r == configureNextJsRedirectPaths(remote, portOrUrl, e)
         IN /\ Continue(r.outcome, ReconcileDid(r), "install")
            /\ reconciles' = Append(reconciles, [run |-> r, current |-> remote])
            /\ remote' = RemoteAfter(remote, r, e)
    /\ UNCHANGED <<files, portOrUrl>>
    /\ Frame({"setup", "remote"})

PromptForJsInstall ==
    /\ step = "install"
    /\ \E choice \in {"npm", "skip", "cancel"}, installOk \in BOOLEAN :
         LET r == promptForJsInstall(choice, installOk)
         IN Continue(r.outcome, r.did, "route")
    /\ UNCHANGED <<files, remoteVars>>
    /\ Frame({"setup", "remote"})

\* ensureDirectory makes the app directory of the route file, which the Pages
\* Router project may lack; then the route file is written.
OverwriteRoute ==
    /\ step = "route"
    /\ \E answer \in {"yes", "no", "cancel"} :
         LET r == overwriteOutcome(files.route, TemplateContent, "none", answer)
         IN /\ Continue(r.outcome, r.did, IF command = "app" THEN "middleware" ELSE "app")
            /\ files' = [files EXCEPT !.route = r.content, !.appRouterDir = TRUE]
    /\ UNCHANGED remoteVars
    /\ Frame({"setup", "remote"})

\* The middleware file is written without ensureDirectory: when its directory
\* does not exist readFileSafe finds no file and fs.writeFile throws.
OverwriteMiddleware ==
    /\ step = "middleware"
    /\ \E answer \in {"yes", "no", "cancel"} :
         LET r == IF files.middlewareDir
                  THEN overwriteOutcome(files.middleware, TemplateContent, "none", answer)
                  ELSE [content |-> files.middleware, outcome |-> "threw", did |-> <<>>]
         IN /\ Continue(r.outcome, r.did, "layout")
            /\ files' = [files EXCEPT !.middleware = r.content]
    /\ UNCHANGED remoteVars
    /\ Frame({"setup", "remote"})

\* The layout step: no layout file, or updateAppRouterLayout and, when it
\* reports failure, the prompt about the manual change.
UpdateLayout ==
    /\ step = "layout"
    /\ IF files.layout = Absent
       THEN Continue("returned", <<>>, "finish") /\ UNCHANGED files
       ELSE \E result \in {"modified", "hasAuthProvider", "none"},
               answer \in {"yes", "no", "cancel"} :
              LET u == updateAppRouterLayout(files.layout, result)
              IN /\ files' = [files EXCEPT !.layout = u.content]
                 /\ IF u.success THEN Continue("returned", <<>>, "finish")
                    ELSE Continue(IF answer = "cancel" THEN "exit0" ELSE "returned",
                                  <<Prompt("manual", answer)>>, "finish")
    /\ UNCHANGED remoteVars
    /\ Frame({"setup", "remote"})

\* The _app.tsx step of setupNextJsPagesRouter: no such file, or
\* updatePagesRouterApp and, when it reports failure, the prompt about the
\* manual change.
UpdatePagesApp ==
    /\ step = "app"
    /\ IF files.app = Absent
       THEN Continue("returned", <<>>, "finish") /\ UNCHANGED files
       ELSE \E result \in {"modified", "hasAuthProvider", "none"},
               answer \in {"yes", "no", "cancel"} :
              LET u == updatePagesRouterApp(files.app, result)
              IN /\ files' = [files EXCEPT !.app = u.content]
                 /\ IF u.success THEN Continue("returned", <<>>, "finish")
                    ELSE Continue(IF answer = "cancel" THEN "exit0" ELSE "returned",
                                  <<Prompt("manual", answer)>>, "finish")
    /\ UNCHANGED remoteVars
    /\ Frame({"setup", "remote"})

\* process.exit(0) at the end of the run.
FinishSetup ==
    /\ step = "finish"
    /\ step' = "exited" /\ setupExit' = <<0>>
    /\ UNCHANGED <<command, effects, files, remoteVars>>
    /\ Frame({"setup", "remote"})

SetupNext ==
    \/ PromptForProjectIfNeeded \/ ValidateNextJsProject \/ GetPort
    \/ ConfigureNextJsEnvironmentVariables \/ SetupRedirectPaths
    \/ PromptForJsInstall \/ OverwriteRoute \/ OverwriteMiddleware
    \/ UpdateLayout \/ UpdatePagesApp \/ FinishSetup

SetupSpec == SetupInit /\ [][SetupNext]_vars

\* getPort called on its own, on any package.json and with any answer.
DevScripts ==
    {<<>>,
     <<Lit("next dev")>>,
     <<Lit("next dev"), SP, Lit("--port"), SP, Num(4000)>>,
     <<Lit("next dev"), SP, Lit("--port"), SP, SP, Num(65536)>>,
     <<Lit("next dev"), SP, Lit("--port"), EQ, Num(4000)>>,
     <<Lit("next dev"), SP, Lit("--port"), Num(4000)>>,
     <<Lit("next dev"), SP, Lit("-p"), SP, Num(4000)>>,
     <<Lit("PORT"), EQ, Num(3919), SP, Lit("next dev")>>,
     <<Lit("next dev"), SP, Lit("--port"), SP, Lit("$PORT"), SP, Lit("--port"), SP, Num(5000)>>,
     <<Lit("dev"), Lit(":port"), SP, Num(8080), SP, Lit("--port"), SP, Num(4000)>>}

PortInit ==
    /\ IdleExcept({"setup", "remote"})
    /\ command = "app"
    /\ step = "getPort" /\ setupExit = Running /\ effects = <<>>
    /\ files \in [config : {"use-default"},
                  pkg : {NoPackageJson} \cup {PackageJson(TRUE, dev) : dev \in DevScripts},
                  appRouterDir : {TRUE}, pagesRouterDir : {FALSE}, middlewareDir : {TRUE},
                  route : {Absent}, middleware : {Absent}, layout : {Absent},
                  app : {Absent}]
    /\ remote = [test_env |-> NoTestEnv, login_redirect_path |-> loginRedirectPath,
                 logout_redirect_path |-> logoutRedirectPath]
    /\ portOrUrl = Unset
    /\ reconciles = <<>>

\* The user cancels the prompt or enters any of the texts.
GetPortAlone ==
    /\ step = "getPort"
    /\ \E userInput \in {[cancel |-> TRUE]} \cup {[text |-> u] : u \in UrlStrings} :
         LET r == getPort(files.pkg, userInput)
         IN /\ Continue(r.outcome, r.did, "environment")
            /\ portOrUrl' = r.value
    /\ UNCHANGED <<files, remote, reconciles>>
    /\ Frame({"setup", "remote"})

PortSpec == PortInit /\ [][GetPortAlone]_vars

\* The env file through the setup commands: setupNextJsAppRouter passes the
\* PortOrUrl of getPort to configureNextJsEnvironmentVariables,
\* setupNextJsPagesRouter passes none; both pass it to
\* configureNextJsRedirectPaths.
EnvironmentInit ==
    /\ IdleExcept({"env", "remote"})
    /\ envFile \in EnvFiles \cup
         {File(<<Lit("PROPELAUTH_REDIRECT_URI"), EQ, Lit("http://localhost:"), Num(DefaultPort),
                 Lit("/api/auth/callback"), LF>>)}
    /\ requiredVars = <<>>
    /\ envRuns = <<>>
    /\ remote = Unset /\ reconciles = <<>>
    /\ portOrUrl \in PortOrUrls

SetupEnvironment(router) ==
    /\ Len(envRuns) < MaxRuns
    /\ \E e \in EnvironmentEnvs :
         LET p == IF router = "app" THEN portOrUrl ELSE Unset
             r == configureNextJsEnvironmentVariables(envFile, p, e)
         IN /\ envRuns' = Append(envRuns, [router |-> router, outcome |-> r.outcome,
                                           did |-> r.did, before |-> envFile])
            /\ envFile' = r.file
    /\ UNCHANGED <<requiredVars, remoteVars>>
    /\ Frame({"env", "remote"})

EnvironmentNext == SetupEnvironment("app") \/ SetupEnvironment("pages")

EnvironmentSpec == EnvironmentInit /\ [][EnvironmentNext]_vars

-----------------------------------------------------------------------------
\* The route file of the setup commands: the template with its two handler
\* names, replaced by the synchronous ones when the major version of next is
\* below 15.

\* text.split('.')[0]
BeforeFirstDot(text) ==
    IF \E i \in 1..Len(text) : text[i] = Lit(".")
    THEN SubSeq(text, 1, (CHOOSE i \in 1..Len(text) :
                            text[i] = Lit(".") /\ \A h \in 1..(i - 1) : text[h] # Lit(".")) - 1)
    ELSE text

\* text.replace(from, to): the first occurrence only. The texts are sequences
\* of lexemes and from is one of the two handler names, each a lexeme of the
\* template and part of no other lexeme.
Replace(text, from, to) ==
    IF \E i \in 1..Len(text) : text[i] = Lit(from)
    THEN LET i == CHOOSE j \in 1..Len(text) :
                    text[j] = Lit(from) /\ \A h \in 1..(j - 1) : text[h] # Lit(from)
         IN [text EXCEPT ![i] = Lit(to)]
    ELSE text

AsyncMajor == 15

RouteTemplate ==
    <<Lit("export const GET = routeHandlers."), Lit("getRouteHandlerAsync"), LF,
      Lit("export const POST = routeHandlers."), Lit("postRouteHandlerAsync"), LF>>

\* NaN >= 15 is false
useAsyncHandlers(version) ==
    LET nextMajor == ParseInt(BeforeFirstDot(IF version = <<>> THEN <<Num(AsyncMajor)>>
                                             ELSE version))
    IN ~nextMajor.nan /\ nextMajor.n >= AsyncMajor

RouteContent(version) ==
    IF ~useAsyncHandlers(version)
    THEN Replace(Replace(RouteTemplate, "getRouteHandlerAsync", "getRouteHandler"),
                 "postRouteHandlerAsync", "postRouteHandler")
    ELSE RouteTemplate

\* The versions a package.json carries for next.
NextVersions ==
    {prefix \o <<Num(major), Lit("."), Num(minor), Lit("."), Num(patch)>> :
        prefix \in {<<>>, <<Lit("^")>>, <<Lit("~")>>, <<Lit(">=")>>},
        major \in {13, 14, 15, 16}, minor \in {0, 1, 2}, patch \in {0, 3}}
      \cup {<<Num(major)>> : major \in {14, 15}}
      \cup {<<Lit("latest")>>, <<Lit("canary")>>}

RouteInit ==
    /\ IdleExcept({"route"})
    /\ nextVersion \in NextVersions
    /\ routeContent = <<>>

GenerateRoute ==
    /\ routeContent = <<>>
    /\ routeContent' = RouteContent(nextVersion)
    /\ UNCHANGED nextVersion
    /\ Frame({"route"})

RouteSpec == RouteInit /\ [][GenerateRoute]_vars

-----
\* Vocabulary of the properties.

\* The run that led to the state. Every run is the last one in the state it
\* leads to, so a property of the last run in every reachable state is a
\* property of every run.
LastRun == {Len(runs)} \ {0}

\* The text run k was given.
Pre(k) == IF k = 1 THEN input ELSE runs[k - 1].updatedContent

\* The host structure: the body element of a layout (0: none), the whole
\* return statement of an app file.
HostBody(s) ==
    IF \E i \in 1..Len(s) : s[i].t = "open" /\ s[i].n = "body"
    THEN CHOOSE i \in 1..Len(s) :
           /\ s[i].t = "open" /\ s[i].n = "body"
           /\ \A j \in (i + 1)..Len(s) : ~(s[j].t = "open" /\ s[j].n = "body")
    ELSE 0

HostFound(d) == IF mode = "layout" THEN HostBody(d.jsx) # 0 ELSE d.fn # "none"

HostRange(d) ==
    IF mode = "layout"
    THEN (IF HostBody(d.jsx) = 0 THEN {}
          ELSE (HostBody(d.jsx) + 1)..NodeEnd(d.jsx, Parse(d.jsx), HostBody(d.jsx)))
    ELSE (IF d.fn = "app" THEN 1..Len(d.jsx) ELSE {})

ProviderInHost(d) ==
    \E j \in HostRange(d) : d.jsx[j].t = "open" /\ d.jsx[j].n = "AuthProvider"

ImportCount(d) == Cardinality({i \in 1..Len(d.imports) : d.imports[i] = ProviderImport})

\* txt with the node spanning tokens j..e wrapped in the provider element
Wrapped(s, j, e, inner) ==
    SubSeq(s, 1, j - 1) \o <<ProviderOpen>> \o inner \o <<ProviderClose>>
      \o SubSeq(s, e + 1, Len(s))

-----------------------------------------------------------------------------
\* C1 (idempotence): a run on the text the previous run returned reports
\* modified = false and returns that text unchanged.
C1_Idempotent ==
    \A k \in LastRun \ {1} :
        /\ ~runs[k].modified
        /\ runs[k].updatedContent = runs[k - 1].updatedContent

C1_Witness == Len(runs) >= 2 /\ runs[1].modified /\ ~runs[2].modified

\* C2 (detection soundness): a text that holds the provider import and a
\* provider element inside the host is reported hasAuthProvider = true,
\* modified = false, and is returned as it was.
C2_DetectionSound ==
    \A k \in LastRun :
        (ImportCount(Pre(k)) > 0 /\ ProviderInHost(Pre(k)))
            => /\ runs[k].hasAuthProvider
               /\ ~runs[k].modified
               /\ runs[k].updatedContent = Pre(k)

C2_Witness ==
    /\ Len(runs) = 1
    /\ ImportCount(input) > 0 /\ ProviderInHost(input)
    /\ runs[1].hasAuthProvider

\* C3 (malformed input): a text with an unclosed tag is returned textually
\* unchanged, with modified = false and hasAuthProvider = false.
C3_MalformedUntouched ==
    \A k \in LastRun :
        IsMalformed(Pre(k).jsx) => runs[k] = OriginalContent(Pre(k))

\* C4 (frame): a run that reports modified = false returns the text it was given.
C4_UnmodifiedIsInput ==
    \A k \in LastRun :
        ~runs[k].modified => runs[k].updatedContent = Pre(k)

\* C5 (vanilla insertion): a well-formed text with no provider import and no
\* provider element, whose host holds {children} directly inside the body (a
\* Component element in the return statement), comes back modified = true,
\* hasAuthProvider = false, with the import and with one target of the host
\* wrapped in the provider element.
NoProvider(d) ==
    /\ ImportCount(d) = 0
    /\ \A j \in 1..Len(d.jsx) : d.jsx[j].n # "AuthProvider"

VanillaTargets(d) ==
    IF mode = "layout"
    THEN {j \in HostRange(d) : d.jsx[j].t = "expr" /\ d.jsx[j].n \in {"children", "props.children"}}
    ELSE {j \in HostRange(d) : d.jsx[j].n = "Component" /\ d.jsx[j].t \in {"self", "open"}}

HasVanillaTarget(d) ==
    IF mode = "layout"
    THEN \E j \in HostRange(d) :
           d.jsx[j] = Expr("children") /\ Parse(d.jsx).parent[j] = HostBody(d.jsx)
    ELSE VanillaTargets(d) # {}

IsVanilla(d) == ~IsMalformed(d.jsx) /\ NoProvider(d) /\ HasVanillaTarget(d)

WrappedAt(d, j) ==
    LET e == NodeEnd(d.jsx, Parse(d.jsx), j)
    IN Wrapped(d.jsx, j, e,
               IF mode = "layout" THEN <<Expr("children")>> ELSE SubSeq(d.jsx, j, e))

C5_VanillaInsertion ==
    \A k \in LastRun :
        IsVanilla(Pre(k))
            => /\ runs[k].modified
               /\ ~runs[k].hasAuthProvider
               /\ runs[k].updatedContent.imports = Append(Pre(k).imports, ProviderImport)
               /\ \E j \in VanillaTargets(Pre(k)) :
                      runs[k].updatedContent.jsx = WrappedAt(Pre(k), j)

C5_Witness ==
    /\ Len(runs) = 1 /\ IsVanilla(input) /\ runs[1].modified
    /\ Len(input.jsx) >= 3

\* C6 as stated: every result with modified = true has hasAuthProvider = true.
C6_ModifiedImpliesHasProvider ==
    \A k \in LastRun : runs[k].modified => runs[k].hasAuthProvider

\* C6 (amended): hasAuthProvider reports the text before the mutation. It is
\* true only if a provider element was already inside the host or the import was
\* already there and a host was found, and a result with modified = true has it
\* true exactly when the import was already there.
C6_HasProviderIsPreState ==
    \A k \in LastRun :
        /\ runs[k].hasAuthProvider
             => (ProviderInHost(Pre(k)) \/ (ImportCount(Pre(k)) > 0 /\ HostFound(Pre(k))))
        /\ runs[k].modified => (runs[k].hasAuthProvider <=> ImportCount(Pre(k)) > 0)

C6_Witness ==
    /\ Len(runs) = 1 /\ runs[1].modified /\ ~runs[1].hasAuthProvider

\* C7 (nested providers in an app file): when the Component element sits inside
\* other provider elements, the run wraps one Component element, text kept, and
\* leaves every other token of the return statement as it was.
NestedInProviders(d) ==
    /\ mode = "pages" /\ d.fn = "app"
    /\ ~IsMalformed(d.jsx)
    /\ \A j \in 1..Len(d.jsx) : d.jsx[j].n # "AuthProvider"
    /\ \E j \in 1..Len(d.jsx) :
         /\ d.jsx[j].n = "Component" /\ d.jsx[j].t \in {"self", "open"}
         /\ \E i \in 1..(j - 1) :
              /\ d.jsx[i] = Open("ThemeProvider")
              /\ j <= NodeEnd(d.jsx, Parse(d.jsx), i)

C7_NestedProvidersUntouched ==
    \A k \in LastRun :
        NestedInProviders(Pre(k))
            => /\ runs[k].modified
               /\ \E j \in 1..Len(Pre(k).jsx) :
                    /\ Pre(k).jsx[j].n = "Component" /\ Pre(k).jsx[j].t \in {"self", "open"}
                    /\ runs[k].updatedContent.jsx = WrappedAt(Pre(k), j)

C7_Witness ==
    /\ Len(runs) = 1 /\ NestedInProviders(input) /\ runs[1].modified

\* C8 (import uniqueness): a run appends the import of AuthProvider from
\* '@propelauth/nextjs/client' to a text that has none and leaves the imports
\* of a text that has it as they are, so after any number of runs, each on the
\* text the run before it returned, the text holds exactly one such import.
C8_ExactlyOneImport ==
    \A k \in LastRun :
        LET before == Pre(k).imports
            after == runs[k].updatedContent.imports
        IN /\ ImportCount(runs[k].updatedContent) = 1
           /\ ImportCount(Pre(k)) = 1 => after = before
           /\ ImportCount(Pre(k)) = 0 => after = Append(before, ProviderImport)

C8_Witness ==
    /\ Len(runs) = 2
    /\ ImportCount(input) = 0
    /\ ImportCount(runs[1].updatedContent) = 1
    /\ ImportCount(runs[2].updatedContent) = 1

\* C9 (target text preservation): the text a run puts in place of the target
\* is the provider opening tag, the target's own text, the provider closing tag.
TargetOf(d) == IF mode = "layout" THEN LayoutTarget(d.jsx) ELSE PagesTarget(d)

C9_TargetTextPreserved ==
    \A k \in LastRun :
        runs[k].modified
            => LET s == Pre(k).jsx
                   j == TargetOf(Pre(k))
                   e == NodeEnd(s, Parse(s), j)
               IN runs[k].updatedContent.jsx = Wrapped(s, j, e, SubSeq(s, j, e))

-----------------------------------------------------------------------------
Finished == call.pc \in {"done", "threw", "exited"}

\* C10 (amended): a finished call has written the proposed content if and only
\* if the file did not exist while its directory did, or it differed and the
\* user answered Yes; a file absent together with its directory is not
\* written: the call throws without a prompt and makes neither; an absent file
\* is never prompted for, an identical one is neither written nor prompted for,
\* and after No or a cancellation the file holds what it held.
C10_WriteGateInDirectory ==
    Finished =>
        /\ call.wrote <=> ((call.before = Absent /\ disk # NoDirectory)
                            \/ (call.before # call.newContent /\ call.answer = "yes"))
        /\ disk = NoDirectory => (call.pc = "threw" /\ call.before = Absent)
        /\ call.before = Absent => ~call.prompted
        /\ call.before = call.newContent => (~call.wrote /\ ~call.prompted)
        /\ call.answer \in {"no", "cancel"} => disk = call.before
        /\ readFileSafe(disk) = IF call.wrote THEN call.newContent ELSE call.before

\* C10 as stated (file reconciliation gate): a finished call has written the
\* proposed content if and only if the file did not exist or it differed and
\* the user answered Yes; an absent file is written without a prompt, an
\* identical one is neither written nor prompted for, and after No or a
\* cancellation the file holds what it held.
C10_WriteGate ==
    Finished =>
        /\ call.wrote <=> (call.before = Absent
                            \/ (call.before # call.newContent /\ call.answer = "yes"))
        /\ call.before = Absent => ~call.prompted
        /\ call.before = call.newContent => (~call.wrote /\ ~call.prompted)
        /\ call.answer \in {"no", "cancel"} => disk = call.before
        /\ readFileSafe(disk) = IF call.wrote THEN call.newContent ELSE call.before

C10_Witness ==
    /\ call.pc = "done" /\ call.answer = "yes" /\ call.wrote
    /\ call.before # Absent /\ disk = call.newContent

-----------------------------------------------------------------------------
\* Properties of the TestEnv conversions (UrlSpec).

StartsFromTestEnv == Len(chain) >= 3 /\ ~IsUrl(chain[1])

\* C15 (Localhost round trip): for every port from 1 to 65535, 80 included,
\* urlToTestEnv(testEnvToUrl(Localhost(port))) is Localhost(port) again.
C15_LocalhostRoundTrip ==
    (/\ StartsFromTestEnv
     /\ chain[1].testEnv.type = "Localhost"
     /\ chain[1].testEnv.port \in 1..MaxUrlPort)
        => chain[3] = chain[1]

\* C16 (SchemeAndDomain round trip): for every SchemeAndDomain value whose text
\* is a valid URL with a hostname other than localhost,
\* urlToTestEnv(testEnvToUrl(v)) is v again, its text kept verbatim.
ValidNonLocalUrl(v) == URL(v).ok /\ URL(v).hostname # "localhost"

C16_SchemeAndDomainRoundTrip ==
    (/\ StartsFromTestEnv
     /\ chain[1].testEnv.type = "SchemeAndDomain"
     /\ ValidNonLocalUrl(chain[1].testEnv.scheme_and_domain))
        => /\ chain[2].url = chain[1].testEnv.scheme_and_domain
           /\ chain[3] = chain[1]

C16_Witness ==
    /\ StartsFromTestEnv
    /\ chain[1].testEnv.type = "SchemeAndDomain"
    /\ ValidNonLocalUrl(chain[1].testEnv.scheme_and_domain)
    /\ Len(chain[1].testEnv.scheme_and_domain) > 2
    /\ chain[3].testEnv.type = "SchemeAndDomain"

\* C17 (urlToTestEnv by cases): a URL on localhost gives Localhost with the port
\* the URL carries (3000 when it carries none), any other valid URL gives
\* SchemeAndDomain with the text, a bare integer gives Localhost with that
\* port, and every other text gives Localhost with port 3000.
WrittenPort(url) ==
    IF Len(url) >= 4 /\ url[3] = Lit(":") /\ url[4].k = "num" THEN url[4].n ELSE DefaultPort

IsBareInteger(url) == Len(url) = 1 /\ url[1].k = "num"

DocumentedTestEnv(url) ==
    IF URL(url).ok
    THEN IF URL(url).hostname = "localhost"
         THEN Localhost(WrittenPort(url)) ELSE SchemeAndDomain(url)
    ELSE IF IsBareInteger(url) THEN Localhost(url[1].n) ELSE Localhost(DefaultPort)

C17_UrlToTestEnvCases ==
    (Len(chain) >= 2 /\ IsUrl(chain[1]))
        => chain[2].testEnv = DocumentedTestEnv(chain[1].url)

-----------------------------------------------------------------------------
\* Properties of the remote reconciler (RemoteSpec).

LastReconcile == {Len(reconciles)} \ {0}

\* What the reconciler is to establish, read off the settings themselves.
SettingsDiffer(settings, p) ==
    \/ settings.login_redirect_path # "/api/auth/callback"
    \/ settings.logout_redirect_path # "/api/auth/logout"
    \/ (IF settings.test_env = NoTestEnv THEN <<Lit("none")>>
        ELSE testEnvToUrl(settings.test_env)) # p.url

DesiredSettings(p) ==
    [test_env |-> p.testEnv, login_redirect_path |-> "/api/auth/callback",
     logout_redirect_path |-> "/api/auth/logout"]

\* C12 (remote reconciler): a run that fetched the settings asks the user
\* exactly when a field differs from the desired value, and issues an update
\* call exactly when a field differs and the user confirms; when every field
\* matches it issues none and does not prompt; an update is one call carrying
\* the full desired object.
C12_UpdateIffDiffersAndConfirmed ==
    \A k \in LastReconcile :
        LET r == reconciles[k].run
            differs == SettingsDiffer(reconciles[k].current, portOrUrl)
        IN /\ r.fetched =>
                ((r.updates # <<>>) <=> (differs /\ r.answer = "yes"))
           /\ (r.fetched /\ differs) => r.prompted
           /\ (r.fetched /\ ~differs) => (~r.prompted /\ r.outcome = "returned")
           /\ ~r.fetched => r.updates = <<>>
           /\ r.updates # <<>> => r.updates = <<DesiredSettings(portOrUrl)>>

C12_Witness ==
    \E k \in LastReconcile :
        /\ reconciles[k].run.updates # <<>>
        /\ reconciles[k].current.logout_redirect_path # "/api/auth/logout"
        /\ reconciles[k].current.login_redirect_path = "/api/auth/callback"
        /\ remote = DesiredSettings(portOrUrl)

\* C14 (idempotent reconciliation): the run after a run whose update call
\* succeeded finds every field matching, does not prompt and issues no update.
UpdateSucceeded(r) == r.updates # <<>> /\ r.outcome = "returned"

C14_SecondRunIsNoOp ==
    \A k \in LastReconcile \ {1} :
        (UpdateSucceeded(reconciles[k - 1].run) /\ reconciles[k].run.fetched)
            => /\ ~reconciles[k].run.needsUpdate
               /\ ~reconciles[k].run.prompted
               /\ reconciles[k].run.updates = <<>>
               /\ remote = reconciles[k].current

C14_Witness ==
    /\ Len(reconciles) >= 2
    /\ UpdateSucceeded(reconciles[1].run)
    /\ reconciles[2].run.fetched
    /\ portOrUrl.testEnv.type = "SchemeAndDomain"

-----------------------------------------------------------------------------
\* Properties of a setup run (SetupSpec).

LastEffect == {Len(effects)} \ {0}

OverwriteAnswered(answer) ==
    \E k \in LastEffect : effects[k] = Prompt("overwrite", answer)

OverwriteDeclined ==
    /\ effects' # effects
    /\ effects'[Len(effects')] = Prompt("overwrite", "no")

\* C11 (cancel terminates the setup): once the overwrite prompt has been
\* cancelled the process has exited and nothing more happens: no prompt, no
\* file write, no remote update; a call in which the overwrite is declined
\* leaves the run going, at its next call.
C11_CancelTerminatesSetup ==
    [][/\ OverwriteAnswered("cancel")
            => /\ step = "exited" /\ step' = "exited"
               /\ effects' = effects /\ files' = files /\ remote' = remote
       /\ OverwriteDeclined
            => (setupExit' = Running /\ step' \in {"middleware", "layout", "app"})]_vars

C11_Witness == OverwriteAnswered("cancel") /\ step = "exited" /\ files.route = OtherContent

\* C13 (declined remote update): after the remote-update prompt is declined the
\* remote settings are what they were, the call has returned, and the run is at
\* its next call, the package install.
C13_DeclineKeepsRemote ==
    /\ \A k \in LastReconcile :
         reconciles[k].run.answer = "no"
             => /\ reconciles[k].run.outcome = "returned"
                /\ reconciles[k].run.updates = <<>>
                /\ remote = reconciles[k].current
    /\ (\E k \in LastEffect : effects[k] = Prompt("remoteUpdate", "no"))
         => (step = "install" /\ setupExit = Running)

C13_Witness ==
    /\ step = "install" /\ setupExit = Running
    /\ Len(effects) > 0 /\ effects[Len(effects)] = Prompt("remoteUpdate", "no")
    /\ remote.logout_redirect_path # logoutRedirectPath

\* C20 (cancellation is not an error): whichever prompt the user cancels, the
\* run halts there and the process exits with code 0.
C20_CancelExitsZero ==
    \A k \in 1..Len(effects) :
        effects[k].answer = "cancel"
            => (k = Len(effects) /\ step = "exited" /\ setupExit = <<0>>)

-----------------------------------------------------------------------------
\* Properties of updateEnvFile (EnvSpec).

LastEnvRun == {Len(envRuns)} \ {0}

\* A key is present in a file when a line of the file, whether the file ends
\* its lines with '\n' or with '\r\n', reads KEY=value.
KeyPresent(file, key) ==
    /\ file.exists
    /\ \E i \in 1..Len(Split(file.content)) :
         LET line == Trim(Split(file.content)[i])
         IN FirstEq(line) >= 2 /\ Trim(SubSeq(line, 1, FirstEq(line) - 1)) = <<Lit(key)>>

AbsentKeys(file) ==
    {i \in 1..Len(requiredVars) : ~KeyPresent(file, requiredVars[i].key)}

RECURSIVE EntriesOf(_, _)
EntriesOf(required, file) ==
    IF required = <<>> THEN <<>>
    ELSE (IF KeyPresent(file, required[1].key) THEN <<>> ELSE EnvEntry(required[1]))
           \o EntriesOf(Tail(required), file)

IsPrefix(a, b) == Len(a) <= Len(b) /\ SubSeq(b, 1, Len(a)) = a

\* C18 (append-only env file): the previous content is a prefix of the new
\* content; what follows it is, for each required key absent from the file and
\* for no other, a '# description' line and a 'KEY=value' line; the file is not
\* written when no required key is absent.
C18_AppendOnly ==
    \A k \in LastEnvRun :
        LET before == envRuns[k].before
            added == SubSeq(envFile.content, Len(before.content) + 1, Len(envFile.content))
        IN /\ IsPrefix(before.content, envFile.content)
           /\ envRuns[k].written <=> (AbsentKeys(before) # {})
           /\ ~envRuns[k].written => envFile = before
           /\ envRuns[k].written =>
                added \in {EntriesOf(requiredVars, before),
                           <<LF>> \o EntriesOf(requiredVars, before)}

-----------------------------------------------------------------------------
\* Properties of the route file (RouteSpec).

\* The major version a version string of package.json denotes: its first number.
HasMajor(version) == \E i \in 1..Len(version) : version[i].k = "num"
MajorOf(version) ==
    version[CHOOSE i \in 1..Len(version) :
              version[i].k = "num" /\ \A h \in 1..(i - 1) : version[h].k # "num"].n

Names(content) == {content[i].s : i \in 1..Len(content)}

\* C19 (route template): the route file keeps getRouteHandlerAsync and
\* postRouteHandlerAsync when the major version of next is 15 or more, and has
\* getRouteHandler and postRouteHandler when it is below 15, whatever range
\* prefix the version carries.
C19_HandlersByMajor ==
    (routeContent # <<>> /\ HasMajor(nextVersion))
        => IF MajorOf(nextVersion) >= 15
           THEN {"getRouteHandlerAsync", "postRouteHandlerAsync"} \subseteq Names(routeContent)
           ELSE /\ {"getRouteHandler", "postRouteHandler"} \subseteq Names(routeContent)
                /\ Names(routeContent) \cap {"getRouteHandlerAsync", "postRouteHandlerAsync"} = {}
-----------------------------------------------------------------------------
\* Properties of the preconditions of a setup run (SetupSpec).

PreconditionFails ==
    \/ step = "project" /\ files.config = "none"
    \/ step = "validate"
         /\ \/ ~files.pkg.readable \/ ~files.pkg.next
            \/ command = "app" /\ ~files.appRouterDir
            \/ command = "pages" /\ ~files.pagesRouterDir

NothingChanged ==
    /\ \A k \in 1..Len(effects) : effects[k].kind # "change"
    /\ reconciles = <<>>

\* C21 (fail fast): a call made without a stored API key or project selection,
\* without a readable package.json that names next, or without the router
\* directory ends the run with exit code 1, and so does a project call that
\* ends the run without having prompted (the fetch of the projects failed);
\* up to then no file was written, no API key created and no remote update
\* sent.
C21_FailFast ==
    [][/\ PreconditionFails
            => /\ step' = "exited" /\ setupExit' = <<1>>
               /\ NothingChanged' /\ files' = files /\ remote' = remote
       /\ (step = "project" /\ step' = "exited" /\ effects' = effects)
            => (setupExit' = <<1>> /\ NothingChanged' /\ files' = files /\ remote' = remote)]_vars

C21_Witness ==
    /\ step = "exited" /\ setupExit = <<1>> /\ effects = <<>>
    /\ files.config = "use-default" /\ files.pkg.next
    /\ command = "app" /\ ~files.appRouterDir

-----------------------------------------------------------------------------
\* Properties of getPort (PortSpec).

\* A port flag of the dev script at position i, its number at position j.
PortFlagAt(dev, i, j) ==
    /\ dev[i] \in {Lit("--port"), Lit(":port")}
    /\ j > i + 1 /\ dev[j].k = "num"
    /\ \A h \in (i + 1)..(j - 1) : dev[h] = SP

PortFlags(dev) == {f \in (1..Len(dev)) \X (1..Len(dev)) : PortFlagAt(dev, f[1], f[2])}

\* C22 (port detection): after getPort, if package.json was readable and its
\* dev script holds a port flag, the result is port N, 'http://localhost:N'
\* and Localhost{N} for the number N of the first flag and nobody was
\* prompted; otherwise the user was prompted for the URL, and a cancelled
\* prompt made the call throw, leaving no result.
C22_PortDetection ==
    step # "getPort" =>
        LET dev == IF files.pkg.readable THEN files.pkg.dev ELSE <<>>
        IN IF PortFlags(dev) # {}
           THEN /\ effects = <<>> /\ step = "environment"
                /\ \A f \in PortFlags(dev) :
                     (\A g \in PortFlags(dev) : f[1] <= g[1])
                        => /\ portOrUrl.port = dev[f[2]].n
                           /\ portOrUrl.url = <<Lit("http://"), Lit("localhost"), Lit(":"),
                                                Num(dev[f[2]].n)>>
                           /\ portOrUrl.testEnv = [type |-> "Localhost", port |-> dev[f[2]].n]
           ELSE /\ Len(effects) = 1 /\ effects[1].what = "url"
                /\ IF effects[1].answer = "cancel"
                   THEN step = "exited" /\ setupExit = <<1>> /\ portOrUrl = Unset
                   ELSE step = "environment" /\ portOrUrl # Unset

C22_Witness ==
    /\ step = "environment" /\ effects = <<>>
    /\ files.pkg.dev = <<Lit("next dev"), SP, Lit("--port"), SP, Num(4000)>>
    /\ portOrUrl.port = 4000

-----------------------------------------------------------------------------
\* Properties of parseEnvVars (ParseSpec).

\* The text before and after the first '=' of a line, both trimmed.
KeyOf(line) == Trim(SubSeq(line, 1, FirstEq(line) - 1))
ValueOf(line) == Trim(SubSeq(line, FirstEq(line) + 1, Len(line)))

\* C23 (parseEnvVars): every line with a '=' gives the key before its first
\* '=' and the value after it, both trimmed, with further '=' and quotes kept
\* as they are (of lines with the same key the last gives the value); lines
\* without '=' give nothing, and empty content gives the empty record.
C23_ParseEnvVars ==
    \A k \in 1..Len(envRuns) :
        LET envLines == Split(envRuns[k].before.content)
            withEq == {i \in 1..Len(envLines) : FirstEq(envLines[i]) > 0}
            parsed == envRuns[k].parsed
        IN /\ DOMAIN parsed = {KeyOf(envLines[i]) : i \in withEq}
           /\ \A i \in withEq :
                (\A j \in withEq : KeyOf(envLines[j]) = KeyOf(envLines[i]) => j <= i)
                    => parsed[KeyOf(envLines[i])] = ValueOf(envLines[i])
           /\ envRuns[k].before.content = <<>> => DOMAIN parsed = {}

C23_Witness ==
    /\ Len(envRuns) = 1
    /\ envRuns[1].before.content =
         <<SP, Lit("PROPELAUTH_API_KEY"), SP, EQ, SP, Lit("a"), EQ, Lit("b"), LF,
           Lit("PROPELAUTH_API_KEY")>>
    /\ envRuns[1].parsed[<<Lit("PROPELAUTH_API_KEY")>>] = <<Lit("a"), EQ, Lit("b")>>

-----------------------------------------------------------------------------
\* Properties of the insertion point (Spec, DeepSpec).

BodyTags(s) == {i \in 1..Len(s) : s[i].t = "open" /\ s[i].n = "body"}

FirstBody(s) == CHOOSE i \in BodyTags(s) : \A j \in BodyTags(s) : i <= j

\* The tokens inside the element opened at i.
Interior(s, i) == (i + 1)..(NodeEnd(s, Parse(s), i) - 1)

\* C24 (first body is the host): of several body elements of a well-formed
\* layout the first is the host: a provider element inside it means no
\* insertion, {children} directly inside it (and no provider) means an
\* insertion, and every insertion is made inside it.
C24_FirstBodyIsHost ==
    \A k \in LastRun :
        LET s == Pre(k).jsx
            P == Parse(s)
        IN (mode = "layout" /\ Cardinality(BodyTags(s)) > 1 /\ ~IsMalformed(s))
             => LET inside == Interior(s, FirstBody(s))
                    provider == \E j \in inside : s[j] = ProviderOpen
                IN /\ provider => ~runs[k].modified
                   /\ (~provider /\ \E j \in inside : /\ s[j] = Expr("children")
                                                  /\ P.parent[j] = FirstBody(s))
                        => runs[k].modified
                   /\ runs[k].modified
                        => \E j \in inside :
                             runs[k].updatedContent.jsx = Wrapped(s, j, j, <<Expr("children")>>)

ChildrenIn(s, b) == {j \in Interior(s, b) : s[j] = Expr("children")}

ProviderTags(s) == Cardinality({j \in 1..Len(s) : s[j] = ProviderOpen})

\* C25 (deepest children, first at that depth): in a well-formed layout whose
\* body holds more than 2 tags, no provider element and some {children}
\* expression, the expression wrapped is one at the greatest depth below the
\* body, the first of those in document order, and no other token changes.
C25_DeepestChildrenFirst ==
    \A k \in LastRun :
        LET s == Pre(k).jsx
            P == Parse(s)
            b == HostBody(s)
        IN (/\ mode = "layout" /\ b # 0 /\ ~IsMalformed(s)
            /\ TagMatches(NodeText(s, P, b)) > 2
            /\ \A j \in Interior(s, b) : s[j] # ProviderOpen
            /\ ChildrenIn(s, b) # {})
             => /\ runs[k].modified
                /\ ProviderTags(runs[k].updatedContent.jsx) = ProviderTags(s) + 1
                /\ \E j \in ChildrenIn(s, b) :
                     /\ \A o \in ChildrenIn(s, b) :
                          \/ Depth(P, o) < Depth(P, j)
                          \/ (Depth(P, o) = Depth(P, j) /\ j <= o)
                     /\ runs[k].updatedContent.jsx = Wrapped(s, j, j, <<Expr("children")>>)

C25_Witness ==
    /\ Len(runs) = 1
    /\ input.jsx = <<Open("body"), Expr("children"), Open("div"), Expr("children"),
                     Expr("children"), Close("div"), Close("body")>>
    /\ runs[1].updatedContent.jsx =
         <<Open("body"), Expr("children"), Open("div"), ProviderOpen, Expr("children"),
           ProviderClose, Expr("children"), Close("div"), Close("body")>>

Components(s) == {j \in 1..Len(s) : s[j].n = "Component" /\ s[j].t \in {"self", "open"}}

\* C26 (first Component in the simple case): in a well-formed return statement
\* with at most 2 tags, no 'Provider' in its text and some Component element,
\* the element wrapped is the first Component element in document order.
C26_FirstComponentWrapped ==
    \A k \in LastRun :
        LET s == Pre(k).jsx
        IN (/\ mode = "pages" /\ Pre(k).fn = "app" /\ ~IsMalformed(s)
            /\ TagMatches(s) <= 2 /\ ~IncludesProvider(s)
            /\ Components(s) # {})
             => /\ runs[k].modified
                /\ \E j \in Components(s) :
                     /\ \A o \in Components(s) : j <= o
                     /\ runs[k].updatedContent.jsx = WrappedAt(Pre(k), j)

\* C28 (a stale import does not count): a result with hasAuthProvider = true
\* returns a text with a provider element inside the host.
C28_FlagMeansProviderInHost ==
    \A k \in LastRun :
        runs[k].hasAuthProvider => ProviderInHost(runs[k].updatedContent)

-----------------------------------------------------------------------------
\* Properties of the automatic update (GateSpec).

\* C27 (automatic update): a finished call made by updateAppRouterLayout or
\* updatePagesRouterApp, on a file the mutator changed, that the user neither
\* declined nor cancelled has returned and has left the updated content on
\* disk.
C27_AutomaticUpdate ==
    (call.spinner = "true" /\ Finished /\ call.answer \notin {"no", "cancel"})
        => (call.pc = "done" /\ disk = call.newContent)

-----------------------------------------------------------------------------
\* Properties of the env file of a setup run (EnvironmentSpec).

\* The value the env file gives a key: that of the last line 'key=value'.
Defines(file, key, value) ==
    LET envLines == Split(file.content)
        ofKey == {i \in 1..Len(envLines) :
                    FirstEq(envLines[i]) > 0 /\ KeyOf(envLines[i]) = <<Lit(key)>>}
    IN /\ file.exists
       /\ \E i \in ofKey : (\A j \in ofKey : j <= i) /\ ValueOf(envLines[i]) = value

HasKey(file, key) ==
    /\ file.exists
    /\ \E i \in 1..Len(Split(file.content)) :
         LET line == Split(file.content)[i]
         IN FirstEq(line) > 0 /\ KeyOf(line) = <<Lit(key)>>

Created(run) == \E i \in 1..Len(run.did) : run.did[i] = Change("apiKey")

\* C29 (no generated key is lost): after a call in which a new API key was
\* created, the env file sets PROPELAUTH_API_KEY to that key.
C29_CreatedKeyIsWritten ==
    \A k \in LastEnvRun :
        Created(envRuns[k]) => Defines(envFile, "PROPELAUTH_API_KEY", <<Lit("new_api_key")>>)

\* C30 (local and remote port agree): after a call that returned, in a run of
\* either router whose test environment is Localhost with port p and whose env
\* file held no PROPELAUTH_REDIRECT_URI, the env file sets
\* PROPELAUTH_REDIRECT_URI to 'http://localhost:p/api/auth/callback', p being
\* the port of the test environment sent to the remote settings.
C30_RedirectPortIsRemotePort ==
    \A k \in LastEnvRun :
        (/\ envRuns[k].outcome = "returned"
         /\ portOrUrl.testEnv.type = "Localhost"
         /\ ~HasKey(envRuns[k].before, "PROPELAUTH_REDIRECT_URI"))
            => Defines(envFile, "PROPELAUTH_REDIRECT_URI",
                       <<Lit("http://localhost:"), Num(UpdateRequest(portOrUrl).test_env.port),
                         Lit("/api/auth/callback")>>)

====
